---------------------------- MODULE Spec2Model ----------------------------
(***************************************************************************)
(* A model of the numerical pipeline of pykoala: the flux calibration     *)
(* (koala/corrections/flux_calibration.py), the helpers of                *)
(* koala/ancillary.py (flux conserving interpolation, detect_edge,        *)
(* running_mean), the wavelength offset corrections                       *)
(* (pykoala/corrections/wavelength.py) and the atmospheric extinction     *)
(* (pykoala/corrections/atmospheric_corrections.py). Each component has   *)
(* its own specification; the variables of the others stay idle in it.    *)
(*                                                                         *)
(* Floating point values are modelled as exact rationals <<n, d>> in      *)
(* lowest terms with d > 0; arrays are functions over tuples of 1-based   *)
(* indices together with their shape, or sequences.                        *)
(***************************************************************************)
EXTENDS Integers, Sequences, FiniteSets, TLC

VARIABLES
    dc,         \* the data container handed to FluxCalibration.apply
    dcOrig,     \* history: the container as it was constructed
    fcApplied,  \* history: the responses of the apply calls that succeeded
    fcCall,     \* history: the last FluxCalibration.apply call
    calib,      \* FluxCalibration: <<calib_wave, calib_spectra>>
    starLib,    \* the files of input_data/spectrophotometric_stars
    rcCall,     \* history: the last read_calibration_star call
    es,         \* the running call of FluxCalibration.extract_stellar_flux
    fci,        \* a call of flux_conserving_interpolation: arguments and result
    wo,         \* a WavelengthOffset object: path, offset_data, offset_error
    fs,         \* the FITS files on disk, by path (<<>>: no such file)
    written,    \* history: the paths tofits has written
    woCall,     \* history: the last tofits / from_fits call
    wc,         \* a call of WavelengthCorrection.apply: the object heap, the
                \* input RSS, the offset and the outcome
    tw,         \* a call of SolarCrossCorrOffset.compute_shift_from_twilight
                \* from all_chi2 on: its inputs, self.offset and the
                \* dictionary returned
    sf,         \* a call of compute_shift_from_twilight without wave_range,
                \* up to its weights
    gm,         \* a call of compute_shift_from_twilight with a wave_range,
                \* up to the grid of weights
    au,         \* a call of FluxCalibration.auto
    rc,         \* a call of FluxCalibration.get_response_curve
    ae,         \* a call of AtmosphericExtCorrection.apply
    de,         \* a call of detect_edge
    rm          \* a call of running_mean

fluxVars == <<dc, dcOrig, fcApplied, fcCall>>

starVars == <<calib, starLib, rcCall>>

offsetVars == <<wo, fs, written, woCall>>

vars == <<dc, dcOrig, fcApplied, fcCall, calib, starLib, rcCall, es, fci,
          wo, fs, written, woCall, wc, tw, sf, gm, au, rc, ae, de, rm>>

\* What the operations of one component leave alone.
exceptFlux == <<starVars, es, fci, offsetVars, wc, tw, sf, gm, au, rc, ae, de, rm>>
exceptStar == <<fluxVars, es, fci, offsetVars, wc, tw, sf, gm, au, rc, ae, de, rm>>
exceptExtract == <<fluxVars, starVars, fci, offsetVars, wc, tw, sf, gm, au, rc, ae, de, rm>>
exceptInterp == <<fluxVars, starVars, es, offsetVars, wc, tw, sf, gm, au, rc, ae, de, rm>>
exceptOffset == <<fluxVars, starVars, es, fci, wc, tw, sf, gm, au, rc, ae, de, rm>>
exceptWaveCorr == <<fluxVars, starVars, es, fci, offsetVars, tw, sf, gm, au, rc, ae, de, rm>>
exceptFeatures == <<fluxVars, starVars, es, fci, offsetVars, wc, tw, gm, au, rc, ae, de, rm>>
exceptRange == <<fluxVars, starVars, es, fci, offsetVars, wc, tw, sf, au, rc, ae, de, rm>>
exceptAuto == <<fluxVars, starVars, es, fci, offsetVars, wc, tw, sf, gm, rc, ae, de, rm>>
exceptResponse == <<fluxVars, starVars, es, fci, offsetVars, wc, tw, sf, gm, au, ae, de, rm>>
exceptExtinction == <<fluxVars, starVars, es, fci, offsetVars, wc, tw, sf, gm, au, rc, de, rm>>
exceptEdge == <<fluxVars, starVars, es, fci, offsetVars, wc, tw, sf, gm, au, rc, ae, rm>>
exceptRunningMean == <<fluxVars, starVars, es, fci, offsetVars, wc, tw, sf, gm, au, rc, ae, de>>
exceptTwilight == <<fluxVars, starVars, es, fci, offsetVars, wc, sf, gm, au, rc, ae, de, rm>>

-----------------------------------------------------------------------------
(* Bounds of the model *)

MaxFibres == 2
MaxWave == 2
MaxSpaxels == 2
MaxValue == 2
MaxNameLen == 2
MaxChunkWave == 4
MaxWindow == 2
MaxGrid == 4
MaxGridLen == 3

-----------------------------------------------------------------------------
(* Python's None, kept apart from every string (a tuple of characters) *)

None == <<"None">>

-----------------------------------------------------------------------------
(* Exact arithmetic standing for the float operators of numpy *)

Abs(a) == IF a < 0 THEN -a ELSE a

RECURSIVE GCD(_, _)
GCD(a, b) == IF b = 0 THEN a ELSE GCD(b, a % b)

Norm(n, d) ==
    LET s == IF d < 0 THEN -1 ELSE 1
        g == GCD(Abs(n), Abs(d))
    IN  <<(s * n) \div g, (s * d) \div g>>

R(n) == <<n, 1>>
RAdd(a, b) == Norm(a[1] * b[2] + b[1] * a[2], a[2] * b[2])
RSub(a, b) == Norm(a[1] * b[2] - b[1] * a[2], a[2] * b[2])
RMul(a, b) == Norm(a[1] * b[1], a[2] * b[2])
RDiv(a, b) == Norm(a[1] * b[2], a[2] * b[1])
RLt(a, b) == a[1] * b[2] < b[1] * a[2]
RLe(a, b) == a[1] * b[2] <= b[1] * a[2]
RNeg(a) == <<-a[1], a[2]>>

\* NaN, which no arithmetic of the model produces: it only enters as data.
NaN == <<0, 0>>
IsNaN(a) == a[2] = 0

RECURSIVE RSum(_)
RSum(seq) == IF seq = <<>> THEN R(0) ELSE RAdd(Head(seq), RSum(Tail(seq)))

-----------------------------------------------------------------------------
(* flux_conserving_interpolation (koala/ancillary.py) *)

\* np.diff(a), also written a[1:] - a[:-1]
diff(a) == [k \in 1..(Len(a) - 1) |-> RSub(a[k + 1], a[k])]

\* The edges of the bins centred on the points of a grid of two or more points.
bin_edges(wavelength) ==
    LET dwave == diff(wavelength)
        n == Len(wavelength)
    IN  <<RSub(wavelength[1], RDiv(dwave[1], R(2)))>>
        \o [k \in 1..(n - 1) |-> RAdd(wavelength[k], RDiv(dwave[k], R(2)))]
        \o <<RAdd(wavelength[n], RDiv(dwave[n - 1], R(2)))>>

\* np.nancumsum(a): the running sum, a NaN counting as zero.
RECURSIVE nancumsum(_)
nancumsum(a) ==
    IF a = <<>> THEN <<>>
    ELSE LET front == nancumsum(SubSeq(a, 1, Len(a) - 1))
             last == IF IsNaN(a[Len(a)]) THEN R(0) ELSE a[Len(a)]
         IN  Append(front, IF front = <<>> THEN last ELSE RAdd(front[Len(front)], last))

\* widths * spectra, NaN where the spectrum is NaN
weighted(widths, spectra) ==
    [k \in 1..Len(spectra) |->
        IF IsNaN(spectra[k]) THEN NaN ELSE RMul(widths[k], spectra[k])]

\* np.interp(x, xp, fp) at one point x, for increasing xp: linear between
\* the points, fp[0] to the left of them and fp[-1] to the right.
interp1(x, xp, fp) ==
    LET n == Len(xp)
    IN  IF RLe(x, xp[1]) THEN fp[1]
        ELSE IF RLe(xp[n], x) THEN fp[n]
        ELSE LET j == CHOOSE j \in 1..(n - 1) : RLe(xp[j], x) /\ RLt(x, xp[j + 1])
                 slope == RDiv(RSub(fp[j + 1], fp[j]), RSub(xp[j + 1], xp[j]))
             IN  RAdd(RMul(slope, RSub(x, xp[j])), fp[j])

interp(x, xp, fp) == [k \in 1..Len(x) |-> interp1(x[k], xp, fp)]

\* Interpolation of the spectrum itself instead of its cumulative sum.
plain_interpolation(new_wavelength, wavelength, spectra) ==
    interp(new_wavelength, wavelength, spectra)

flux_conserving_interpolation(new_wavelength, wavelength, spectra) ==
    LET wavelength_edges == bin_edges(wavelength)
        new_wavelength_edges == bin_edges(new_wavelength)
        cum_spectra == <<R(0)>> \o nancumsum(weighted(diff(wavelength_edges), spectra))
        new_cum_spectra == interp(new_wavelength_edges, wavelength_edges, cum_spectra)
        num == diff(new_cum_spectra)
        den == diff(new_wavelength_edges)
    IN  [k \in 1..Len(new_wavelength) |-> RDiv(num[k], den[k])]

\* Strictly increasing grids of 2..MaxGridLen points among lo..hi.
Grids(lo, hi) ==
    {g \in UNION {[1..n -> {R(v) : v \in lo..hi}] : n \in 2..MaxGridLen} :
        \A k \in 1..(Len(g) - 1) : RLt(g[k], g[k + 1])}

SpectraValues == {R(0), R(1), R(3), NaN}

-----------------------------------------------------------------------------
(* numpy arrays: [shape |-> <<n1, .., nk>>, data |-> [Indices(shape) -> value]] *)

RECURSIVE Indices(_)
Indices(shape) ==
    IF shape = <<>> THEN {<<>>}
    ELSE {<<i>> \o rest : i \in 1..Head(shape), rest \in Indices(Tail(shape))}

RECURSIVE Product(_)
Product(shape) == IF shape = <<>> THEN 1 ELSE Head(shape) * Product(Tail(shape))

\* Position of an index in C (row-major) order, from 1.
RECURSIVE Ravel(_, _)
Ravel(idx, shape) ==
    IF idx = <<>> THEN 1
    ELSE (Head(idx) - 1) * Product(Tail(shape)) + Ravel(Tail(idx), Tail(shape))

\* np.expand_dims(response, axis=tuple(range(1, ndim))): (n,) -> (n, 1, .., 1)
expand_dims(response, ndim) ==
    LET shape == [d \in 1..ndim |-> IF d = 1 THEN Len(response) ELSE 1]
    IN  [shape |-> shape,
         data |-> [idx \in Indices(shape) |-> response[idx[1]]]]

\* Shapes numpy can broadcast together.
Broadcastable(sa, sb) ==
    /\ Len(sa) = Len(sb)
    /\ \A d \in 1..Len(sa) : sa[d] = sb[d] \/ sa[d] = 1 \/ sb[d] = 1

BroadcastShape(sa, sb) ==
    [d \in 1..Len(sa) |-> IF sa[d] >= sb[d] THEN sa[d] ELSE sb[d]]

\* a /= b is possible when the broadcast result has the shape of a.
InplaceOk(sa, sb) == Broadcastable(sa, sb) /\ BroadcastShape(sa, sb) = sa

\* The element of b that numpy pairs with element idx of a.
BIndex(idx, sb) == [d \in 1..Len(idx) |-> IF sb[d] = 1 THEN 1 ELSE idx[d]]

\* a /= b
InplaceDivide(a, b) ==
    [shape |-> a.shape,
     data |-> [idx \in Indices(a.shape) |->
                  RDiv(a.data[idx], b.data[BIndex(idx, b.shape)])]]

\* b ** 2
Square(b) ==
    [shape |-> b.shape, data |-> [idx \in Indices(b.shape) |-> RMul(b.data[idx], b.data[idx])]]


-----------------------------------------------------------------------------
(* Data containers (RSS: fibre x wavelength, Cube: wavelength x y x x) *)

CorrectionNames == {"FluxCalibration", "AtmosphericExtinction"}
NotLogged == [status |-> "none", comments |-> "none"]

ContainerShapes ==
    {<<"RSS", <<nf, nw>>>> : nf \in 1..MaxFibres, nw \in 1..MaxWave}
    \cup {<<"Cube", <<nw, ny, nx>>>> :
              nw \in 1..MaxWave, ny \in 1..MaxSpaxels, nx \in 1..MaxSpaxels}

\* The axis of the intensity array that runs over wavelength.
WaveAxis(kind) == IF kind = "RSS" THEN 2 ELSE 1

NewContainer(kind, shape, seed, log) ==
    [kind |-> kind,
     n_wave |-> shape[WaveAxis(kind)],
     intensity_corrected |->
         [shape |-> shape,
          data |-> [idx \in Indices(shape) |-> R(seed * Ravel(idx, shape))]],
     variance_corrected |->
         [shape |-> shape,
          data |-> [idx \in Indices(shape) |-> R(seed + Ravel(idx, shape))]],
     log |-> log]

\* DataContainer.is_corrected(name): the log holds name with status 'applied'.
is_corrected(data_container, name) == data_container.log[name].status = "applied"

\* CorrectionBase.log_correction(data_container, status, **comments)
log_correction(data_container, name, status, units) ==
    [data_container EXCEPT !.log[name] = [status |-> status, comments |-> units]]

-----------------------------------------------------------------------------
(* FluxCalibration.apply *)

FluxCalibrationName == "FluxCalibration"
DefaultResponseUnits == "1e-16 erg/s/cm2/aa"

Responses ==
    UNION {[1..n -> {R(v) : v \in 1..(MaxValue + 1)}] : n \in 1..MaxWave}

\* apply without its is_corrected test.
apply_unguarded(response, data_container) ==
    LET r == expand_dims(response, Len(data_container.intensity_corrected.shape))
    IN  IF ~InplaceOk(data_container.intensity_corrected.shape, r.shape)
        THEN [raised |-> "ValueError", dc |-> data_container]
        ELSE [raised |-> "None",
              dc |-> log_correction(
                  [data_container EXCEPT
                      !.intensity_corrected = InplaceDivide(@, r),
                      !.variance_corrected = InplaceDivide(@, Square(r))],
                  FluxCalibrationName, "applied", DefaultResponseUnits)]

\* apply without its final log_correction.
apply_unlogged(response, data_container) ==
    IF is_corrected(data_container, FluxCalibrationName)
    THEN [raised |-> "CalibrationError", dc |-> data_container]
    ELSE LET r == expand_dims(response, Len(data_container.intensity_corrected.shape))
         IN  IF ~InplaceOk(data_container.intensity_corrected.shape, r.shape)
             THEN [raised |-> "ValueError", dc |-> data_container]
             ELSE [raised |-> "None",
                   dc |-> [data_container EXCEPT
                              !.intensity_corrected = InplaceDivide(@, r),
                              !.variance_corrected = InplaceDivide(@, Square(r))]]

\* The call's outcome: the exception it raised ("None" when it returned) and
\* the container as the call leaves it.
apply(response, data_container) ==
    IF is_corrected(data_container, FluxCalibrationName)
    THEN [raised |-> "CalibrationError", dc |-> data_container]
    ELSE LET r == expand_dims(response, Len(data_container.intensity_corrected.shape))
         IN  IF ~InplaceOk(data_container.intensity_corrected.shape, r.shape)
             THEN [raised |-> "ValueError", dc |-> data_container]
             ELSE [raised |-> "None",
                   dc |-> log_correction(
                       [data_container EXCEPT
                           !.intensity_corrected = InplaceDivide(@, r),
                           !.variance_corrected = InplaceDivide(@, Square(r))],
                       FluxCalibrationName, "applied", DefaultResponseUnits)]

FluxInit ==
    /\ \E ks \in ContainerShapes, seed \in 1..MaxValue,
          log \in [CorrectionNames -> {NotLogged,
                                       [status |-> "applied", comments |-> "none"]}] :
           dc = NewContainer(ks[1], ks[2], seed, log)
    /\ dcOrig = dc
    /\ fcApplied = <<>>
    /\ fcCall = [op |-> "none"]
    /\ calib = <<None, None>> /\ starLib = {} /\ rcCall = [op |-> "none"]
    /\ es = [status |-> "idle"]
    /\ fci = [stage |-> "idle"]
    /\ wo = "idle" /\ fs = "idle" /\ written = {} /\ woCall = [op |-> "none"]
    /\ wc = [stage |-> "idle"]
    /\ tw = [stage |-> "idle"]
    /\ sf = [stage |-> "idle"]
    /\ gm = [stage |-> "idle"]
    /\ au = [stage |-> "idle"]
    /\ rc = [stage |-> "idle"]
    /\ ae = [stage |-> "idle"]
    /\ de = [stage |-> "idle"]
    /\ rm = [stage |-> "idle"]

FluxApply ==
    \E response \in Responses :
        LET out == apply(response, dc)
        IN  /\ dc' = out.dc
            /\ fcApplied' = IF out.raised = "None"
                            THEN Append(fcApplied, response) ELSE fcApplied
            /\ fcCall' = [op |-> "apply", response |-> response, pre |-> dc,
                          prior |-> Len(fcApplied), raised |-> out.raised]
            /\ UNCHANGED <<dcOrig, exceptFlux>>

FluxNext == FluxApply

-----------------------------------------------------------------------------
(* Claims on FluxCalibration.apply *)

\* C1: FluxCalibration.apply on a container already marked as corrected by
\* FluxCalibration raises CalibrationError and leaves intensity_corrected,
\* variance_corrected and the correction log of the container unchanged.
C1_AlreadyCalibratedRaises ==
    (fcCall.op = "apply" /\ is_corrected(fcCall.pre, FluxCalibrationName)) =>
        /\ fcCall.raised = "CalibrationError"
        /\ dc.intensity_corrected = fcCall.pre.intensity_corrected
        /\ dc.variance_corrected = fcCall.pre.variance_corrected
        /\ dc.log = fcCall.pre.log

\* An apply on a container that an earlier apply of this run calibrated.
C1_Witness ==
    /\ fcCall.op = "apply"
    /\ fcCall.prior = 1
    /\ is_corrected(fcCall.pre, FluxCalibrationName)
    /\ fcCall.raised = "CalibrationError"

\* C2: once an apply has succeeded every later apply on the container raises
\* CalibrationError, so over any sequence of applies the intensity is divided
\* by a response exactly once (the first that succeeded) and the variance by
\* the square of that response exactly once.
C2_DividedExactlyOnce ==
    /\ Len(fcApplied) <= 1
    /\ (fcCall.op = "apply" /\ fcCall.prior >= 1) => fcCall.raised = "CalibrationError"
    /\ fcApplied = <<>> =>
        /\ dc.intensity_corrected = dcOrig.intensity_corrected
        /\ dc.variance_corrected = dcOrig.variance_corrected
    /\ fcApplied # <<>> =>
        LET r == expand_dims(fcApplied[1], Len(dcOrig.intensity_corrected.shape))
        IN  /\ dc.intensity_corrected = InplaceDivide(dcOrig.intensity_corrected, r)
            /\ dc.variance_corrected = InplaceDivide(dcOrig.variance_corrected, Square(r))

\* A later apply, with another response, after a first one succeeded.
C2_Witness ==
    /\ fcCall.op = "apply"
    /\ fcCall.prior = 1
    /\ fcCall.response # fcApplied[1]
    /\ \E idx \in Indices(dc.intensity_corrected.shape) :
           dc.intensity_corrected.data[idx] # dcOrig.intensity_corrected.data[idx]

\* C3: given a response with one value per wavelength point, apply divides
\* every intensity_corrected element by the response at the wavelength index
\* of the element and every variance_corrected element by its square, for a
\* 2D RSS (fibre x wavelength) and for a 3D Cube (wavelength x y x x).
C3_DividesAlongWavelength ==
    (/\ fcCall.op = "apply"
     /\ ~is_corrected(fcCall.pre, FluxCalibrationName)
     /\ Len(fcCall.response) = fcCall.pre.n_wave) =>
        /\ fcCall.raised = "None"
        /\ \A idx \in Indices(dc.intensity_corrected.shape) :
            LET r == fcCall.response[idx[WaveAxis(dc.kind)]]
            IN  /\ dc.intensity_corrected.data[idx]
                     = RDiv(fcCall.pre.intensity_corrected.data[idx], r)
                /\ dc.variance_corrected.data[idx]
                     = RDiv(fcCall.pre.variance_corrected.data[idx], RMul(r, r))

-----------------------------------------------------------------------------
(* FluxCalibration.read_calibration_star and the library of standard stars. *)
(* Strings are tuples of characters.                                         *)

\* ASCII order of the characters used.
CharOrd(c) ==
    CASE c = "." -> 46 [] c = "F" -> 70 [] c = "_" -> 95 [] c = "d" -> 100
      [] c = "e" -> 101 [] c = "f" -> 102 [] c = "g" -> 103 [] c = "h" -> 104
      [] c = "i" -> 105

RECURSIVE StrLt(_, _)
StrLt(a, b) ==
    IF a = <<>> THEN b # <<>>
    ELSE IF b = <<>> THEN FALSE
    ELSE IF Head(a) = Head(b) THEN StrLt(Tail(a), Tail(b))
    ELSE CharOrd(Head(a)) < CharOrd(Head(b))

\* np.sort(files)
RECURSIVE SortFiles(_)
SortFiles(files) ==
    IF files = {} THEN <<>>
    ELSE LET first == CHOOSE f \in files : \A g \in files \ {f} : StrLt(f, g)
         IN  <<first>> \o SortFiles(files \ {first})

\* str.lower()
lower(name) == [k \in 1..Len(name) |-> IF name[k] = "F" THEN "f" ELSE name[k]]

\* str.split(sep)[0]
RECURSIVE SplitFirst(_, _)
SplitFirst(str, sep) ==
    IF str = <<>> \/ Head(str) = sep THEN <<>>
    ELSE <<Head(str)>> \o SplitFirst(Tail(str), sep)

\* sub in str
Contains(str, sub) ==
    \E k \in 0..(Len(str) - Len(sub)) : SubSeq(str, k + 1, k + Len(sub)) = sub

Feige == <<"f", "e", "i", "g", "e">>

\* The files the library directory may hold.
LibFiles ==
    {<<"f", "h", ".", "d">>, <<"f", "h", "_", "e", ".", "d">>,
     <<"f", "f", "e", "i", "g", "e", ".", "d">>}

\* The files outside the library that exist.
UserFiles == {<<"h", ".", "d">>}

PathArgs == {None, <<"h", ".", "d">>, <<"g", ".", "d">>}

NameArgs ==
    {None, Feige, <<"F">> \o Tail(Feige), <<"f">> \o Feige, <<"h">> \o Feige}
    \cup UNION {[1..n -> {"f", "F", "h"}] : n \in 0..MaxNameLen}

\* list_available_stars: the sorted files and the star name of each.
list_available_stars(lib) ==
    LET files == SortFiles(lib)
    IN  <<[k \in 1..Len(files) |-> SplitFirst(SplitFirst(files[k], "."), "_")], files>>

\* The name as read_calibration_star looks it up (name is not empty).
normalise_name(name) ==
    LET low == lower(name)
    IN  IF low[1] # "f" \/ Contains(low, Feige) THEN <<"f">> \o low ELSE low

\* np.where(all_names == name)[0]
Match(all_names, name) == {k \in 1..Len(all_names) : all_names[k] = name}

Max(S) == CHOOSE m \in S : \A k \in S : k <= m

\* np.loadtxt(path, unpack=True, usecols=(0, 1)): the two columns of the file.
loadtxt(path) == <<<<"wave">> \o path, <<"spectra">> \o path>>

LibPath(file) == <<"lib">> \o file

\* The call's outcome: the exception raised ("None" when it returned) and
\* <<calib_wave, calib_spectra>> as the call leaves them.
\* read_calibration_star that falls through to the path when no name matches.
read_calibration_star_fallthrough(name, path, lib, cal) ==
    IF name # None /\ name = <<>>
    THEN [raised |-> "IndexError", calib |-> cal]
    ELSE LET listed == list_available_stars(lib)
             match == IF name = None THEN {} ELSE Match(listed[1], normalise_name(name))
             path1 == IF match # {} THEN LibPath(listed[2][Max(match)]) ELSE path
             cal1 == IF match # {} THEN loadtxt(path1) ELSE cal
         IN  IF path1 = None THEN [raised |-> "None", calib |-> cal1]
             ELSE IF Head(path1) = "lib" \/ path1 \in UserFiles
                  THEN [raised |-> "None", calib |-> loadtxt(path1)]
                  ELSE [raised |-> "OSError", calib |-> cal1]

read_calibration_star(name, path, lib, cal) ==
    IF name # None /\ name = <<>>
    THEN [raised |-> "IndexError", calib |-> cal]
    ELSE LET listed == list_available_stars(lib)
             match == IF name = None THEN {} ELSE Match(listed[1], normalise_name(name))
             path1 == IF match # {} THEN LibPath(listed[2][Max(match)]) ELSE path
             cal1 == IF match # {} THEN loadtxt(path1) ELSE cal
         IN  IF name # None /\ match = {}
             THEN [raised |-> "FileNotFoundError", calib |-> cal]
             ELSE IF path1 = None THEN [raised |-> "None", calib |-> cal1]
             ELSE IF Head(path1) = "lib" \/ path1 \in UserFiles
                  THEN [raised |-> "None", calib |-> loadtxt(path1)]
                  ELSE [raised |-> "OSError", calib |-> cal1]

StarInit ==
    /\ calib = <<None, None>>
    /\ starLib \in SUBSET LibFiles
    /\ rcCall = [op |-> "none"]
    /\ dc = "idle" /\ dcOrig = "idle" /\ fcApplied = <<>> /\ fcCall = [op |-> "none"]
    /\ es = [status |-> "idle"]
    /\ fci = [stage |-> "idle"]
    /\ wo = "idle" /\ fs = "idle" /\ written = {} /\ woCall = [op |-> "none"]
    /\ wc = [stage |-> "idle"]
    /\ tw = [stage |-> "idle"]
    /\ sf = [stage |-> "idle"]
    /\ gm = [stage |-> "idle"]
    /\ au = [stage |-> "idle"]
    /\ rc = [stage |-> "idle"]
    /\ ae = [stage |-> "idle"]
    /\ de = [stage |-> "idle"]
    /\ rm = [stage |-> "idle"]

ReadCalibrationStar ==
    \E name \in NameArgs, path \in PathArgs :
        LET out == read_calibration_star(name, path, starLib, calib)
        IN  /\ calib' = out.calib
            /\ rcCall' = [op |-> "read", name |-> name, path |-> path,
                          pre |-> calib, raised |-> out.raised]
            /\ UNCHANGED <<starLib, exceptStar>>

StarNext == ReadCalibrationStar

-----------------------------------------------------------------------------
(* FluxCalibration.extract_stellar_flux: the loop over wavelength chunks *)

\* What fitting the profile of one chunk with scipy's curve_fit can do: return
\* the optimum, raise RuntimeError (the minimisation did not converge), or let
\* through a FitError raised by the profile callable.
FitOutcomes == {"converged", "RuntimeError", "FitError"}

\* isinstance(exc, cls) for the exception classes involved: the built-in
\* RuntimeError is no FitError.
IsInstance(exc, cls) == exc = cls

\* np.nanmean(wavelength[lambda_ : lambda_ + wave_window]) for the
\* wavelengths 1, 2, .., n (lambda_ counts from 0).
SliceMean(lambda_, wave_window, n) ==
    LET last == IF lambda_ + wave_window < n THEN lambda_ + wave_window ELSE n
    IN  Norm((lambda_ + 1 + last) * (last - lambda_), 2 * (last - lambda_))

\* The try / except FitError / else statement around curve_fit, for a chunk
\* with data: the state of the call after it.
FitChunk(call, outcome) ==
    LET tried == [call EXCEPT !.attempts = Append(@, <<call.lambda_, outcome>>)]
    IN  IF outcome = "converged"
        THEN [tried EXCEPT
                 !.running_wavelength =
                     Append(@, SliceMean(call.lambda_, call.wave_window, call.n)),
                 !.lambda_ = @ + call.wave_window]
        ELSE IF IsInstance(outcome, "FitError")
        THEN [tried EXCEPT !.status = "raised", !.exc = "FitError"]
        ELSE [tried EXCEPT !.status = "raised", !.exc = outcome]

ExtractInit ==
    /\ es = [status |-> "idle"]
    /\ dc = "idle" /\ dcOrig = "idle" /\ fcApplied = <<>> /\ fcCall = [op |-> "none"]
    /\ calib = <<None, None>> /\ starLib = {} /\ rcCall = [op |-> "none"]
    /\ fci = [stage |-> "idle"]
    /\ wo = "idle" /\ fs = "idle" /\ written = {} /\ woCall = [op |-> "none"]
    /\ wc = [stage |-> "idle"]
    /\ tw = [stage |-> "idle"]
    /\ sf = [stage |-> "idle"]
    /\ gm = [stage |-> "idle"]
    /\ au = [stage |-> "idle"]
    /\ rc = [stage |-> "idle"]
    /\ ae = [stage |-> "idle"]
    /\ de = [stage |-> "idle"]
    /\ rm = [stage |-> "idle"]

\* extract_stellar_flux is called: wave_window None (<<>>) stands for 1.
ExtractCall ==
    /\ es.status = "idle"
    /\ \E n \in 1..MaxChunkWave, wave_window \in {<<>>} \cup {<<w>> : w \in 1..MaxWindow} :
           es' = [status |-> "running", exc |-> "None", n |-> n,
                  wave_window |-> IF wave_window = <<>> THEN 1 ELSE wave_window[1],
                  lambda_ |-> 0, running_wavelength |-> <<>>, attempts |-> <<>>,
                  result |-> None]
    /\ UNCHANGED exceptExtract

\* One iteration of the loop over range(0, wavelength.size, wave_window).
ExtractChunk ==
    /\ es.status = "running"
    /\ es.lambda_ < es.n
    /\ \E finite \in BOOLEAN, outcome \in FitOutcomes :
           es' = IF ~finite
                 THEN [es EXCEPT !.lambda_ = @ + es.wave_window]
                 ELSE FitChunk(es, outcome)
    /\ UNCHANGED exceptExtract

\* The loop is over: the result dictionary is returned.
ExtractReturn ==
    /\ es.status = "running"
    /\ es.lambda_ >= es.n
    /\ es' = [es EXCEPT !.status = "returned",
                        !.result = [mean_wave |-> es.running_wavelength]]
    /\ UNCHANGED exceptExtract

ExtractNext == ExtractCall \/ ExtractChunk \/ ExtractReturn

-----------------------------------------------------------------------------
(* Calls of flux_conserving_interpolation *)

InterpInit ==
    /\ \E wavelength \in Grids(1, MaxGrid - 1), new_wavelength \in Grids(0, MaxGrid) :
           \E spectra \in [1..Len(wavelength) -> SpectraValues] :
               fci = [stage |-> "called", new_wavelength |-> new_wavelength,
                      wavelength |-> wavelength, spectra |-> spectra]
    /\ dc = "idle" /\ dcOrig = "idle" /\ fcApplied = <<>> /\ fcCall = [op |-> "none"]
    /\ calib = <<None, None>> /\ starLib = {} /\ rcCall = [op |-> "none"]
    /\ es = [status |-> "idle"]
    /\ wo = "idle" /\ fs = "idle" /\ written = {} /\ woCall = [op |-> "none"]
    /\ wc = [stage |-> "idle"]
    /\ tw = [stage |-> "idle"]
    /\ sf = [stage |-> "idle"]
    /\ gm = [stage |-> "idle"]
    /\ au = [stage |-> "idle"]
    /\ rc = [stage |-> "idle"]
    /\ ae = [stage |-> "idle"]
    /\ de = [stage |-> "idle"]
    /\ rm = [stage |-> "idle"]

Interpolate ==
    /\ fci.stage = "called"
    /\ fci' = [stage |-> "returned", new_wavelength |-> fci.new_wavelength,
               wavelength |-> fci.wavelength, spectra |-> fci.spectra,
               new_spectra |-> flux_conserving_interpolation(
                   fci.new_wavelength, fci.wavelength, fci.spectra)]
    /\ UNCHANGED exceptInterp

InterpNext == Interpolate

-----------------------------------------------------------------------------
(* WavelengthOffset: tofits and from_fits (pykoala/corrections/wavelength.py) *)

FitsPaths == {<<"a.fits">>, <<"b.fits">>}

\* The offset arrays: one value per fibre, or None.
OffsetData == UNION {[1..n -> {R(0), R(1)}] : n \in 1..MaxFibres}
OffsetErrors(data) ==
    {None, [k \in 1..Len(data) |-> NaN], [k \in 1..Len(data) |-> R(1)]}

\* WavelengthOffset.__init__
WavelengthOffset(path, offset_data, offset_error) ==
    [path |-> path, offset_data |-> offset_data, offset_error |-> offset_error]

\* astropy HDUs: an image is stored as its shape and its values.
PrimaryHDU == [kind |-> "PrimaryHDU", name |-> "PRIMARY", shape |-> <<>>, values |-> <<>>]
ImageHDU(data, name) ==
    [kind |-> "ImageHDU", name |-> name,
     shape |-> IF data = None THEN <<>> ELSE <<Len(data)>>,
     values |-> IF data = None THEN <<>> ELSE data]

\* hdu.data
HduData(hdu) == IF hdu.shape = <<>> THEN None ELSE SubSeq(hdu.values, 1, hdu.shape[1])

\* Files found on disk before any call: one with a primary HDU only, one
\* holding another offset.
ShortFile == <<PrimaryHDU>>
OtherFile == <<PrimaryHDU, ImageHDU(<<R(3)>>, "OFFSET"), ImageHDU(<<R(2)>>, "OFFSET_ERR")>>

\* The call's outcome: the exception raised ("None" when it returned), the
\* object and the files as the call leaves them.
\* tofits that writes to self.path whenever there is one.
tofits_own_path_first(self, output_path, files) ==
    IF self.path = None /\ output_path = None
    THEN [raised |-> "NameError", self |-> self, fs |-> files]
    ELSE LET target == IF self.path # None THEN self.path ELSE output_path
             hdul == <<PrimaryHDU, ImageHDU(self.offset_data, "OFFSET"),
                       ImageHDU(self.offset_error, "OFFSET_ERR")>>
         IN  [raised |-> "None", self |-> self, fs |-> [files EXCEPT ![target] = hdul]]

tofits(self, output_path, files) ==
    IF output_path = None /\ self.path = None
    THEN [raised |-> "NameError", self |-> self, fs |-> files]
    ELSE LET target == IF output_path = None THEN self.path ELSE output_path
             primary == PrimaryHDU
             data == ImageHDU(self.offset_data, "OFFSET")
             error == ImageHDU(self.offset_error, "OFFSET_ERR")
             hdul == <<primary, data, error>>
         IN  [raised |-> "None", self |-> self, fs |-> [files EXCEPT ![target] = hdul]]

\* from_fits that takes the two image extensions in the other order.
from_fits_swapped(path, files) ==
    IF files[path] = <<>>
    THEN [raised |-> "NameError", result |-> None]
    ELSE IF Len(files[path]) < 3
    THEN [raised |-> "IndexError", result |-> None]
    ELSE [raised |-> "None",
          result |-> WavelengthOffset(path, HduData(files[path][3]),
                                      HduData(files[path][2]))]

\* from_fits: hdul[1] and hdul[2] are the second and third HDU of the file.
from_fits(path, files) ==
    IF files[path] = <<>>
    THEN [raised |-> "NameError", result |-> None]
    ELSE IF Len(files[path]) < 3
    THEN [raised |-> "IndexError", result |-> None]
    ELSE [raised |-> "None",
          result |-> WavelengthOffset(path, HduData(files[path][2]),
                                      HduData(files[path][3]))]

OffsetInit ==
    /\ \E path \in FitsPaths \cup {None}, data \in OffsetData \cup {None} :
           \E error \in IF data = None THEN {None} ELSE OffsetErrors(data) :
               wo = WavelengthOffset(path, data, error)
    /\ fs \in [FitsPaths -> {<<>>, ShortFile, OtherFile}]
    /\ written = {}
    /\ woCall = [op |-> "none"]
    /\ dc = "idle" /\ dcOrig = "idle" /\ fcApplied = <<>> /\ fcCall = [op |-> "none"]
    /\ calib = <<None, None>> /\ starLib = {} /\ rcCall = [op |-> "none"]
    /\ es = [status |-> "idle"]
    /\ fci = [stage |-> "idle"]
    /\ wc = [stage |-> "idle"]
    /\ tw = [stage |-> "idle"]
    /\ sf = [stage |-> "idle"]
    /\ gm = [stage |-> "idle"]
    /\ au = [stage |-> "idle"]
    /\ rc = [stage |-> "idle"]
    /\ ae = [stage |-> "idle"]
    /\ de = [stage |-> "idle"]
    /\ rm = [stage |-> "idle"]

ToFits ==
    \E output_path \in FitsPaths \cup {None} :
        LET out == tofits(wo, output_path, fs)
        IN  /\ wo' = out.self
            /\ fs' = out.fs
            /\ written' = written \cup {p \in FitsPaths : out.fs[p] # fs[p]}
            /\ woCall' = [op |-> "tofits", path |-> output_path, raised |-> out.raised,
                          pre_wo |-> wo, pre_fs |-> fs, result |-> None]
            /\ UNCHANGED exceptOffset

FromFits ==
    \E path \in FitsPaths :
        LET out == from_fits(path, fs)
        IN  /\ woCall' = [op |-> "from_fits", path |-> path, raised |-> out.raised,
                          pre_wo |-> wo, pre_fs |-> fs, result |-> out.result]
            /\ UNCHANGED <<wo, fs, written, exceptOffset>>

OffsetNext == ToFits \/ FromFits

-----------------------------------------------------------------------------
(* WavelengthCorrection.apply. Python objects live in a heap, a function    *)
(* from references to values: an RSS holds the references of its intensity  *)
(* (a sequence of rows, one per fibre), of its variance and of its history. *)

WavelengthCorrectionName == "WavelengthCorrection"

\* DataContainer.copy(): a deep copy, at fresh references.
copy(rss, heap) ==
    LET base == Len(heap)
    IN  [obj |-> [rss EXCEPT !.intensity = base + 1, !.variance = base + 2,
                             !.history = base + 3],
         heap |-> heap \o <<heap[rss.intensity], heap[rss.variance], heap[rss.history]>>]

\* CorrectionBase.record_correction(rss, status): one more entry in the history.
record_correction(rss, heap, name, status) ==
    [heap EXCEPT ![rss.history] = Append(@, <<name, status>>)]

\* np.arange(n)
arange(n) == [k \in 1..n |-> R(k - 1)]

\* x - offset
shifted(x, offset) == [k \in 1..Len(x) |-> RSub(x[k], offset)]

\* The loop over the fibres from fibre i on: each row of rss_out is the row
\* of rss resampled with the offset of the fibre.
RECURSIVE resample_rows(_, _, _, _, _)
resample_rows(i, rss, rss_out, offset_data, heap) ==
    IF i > Len(heap[rss.intensity]) THEN [raised |-> "None", heap |-> heap]
    ELSE IF offset_data = None THEN [raised |-> "TypeError", heap |-> heap]
    ELSE IF i > Len(offset_data) \/ rss.wavelength_size < 2
    THEN [raised |-> "IndexError", heap |-> heap]
    ELSE LET x == arange(rss.wavelength_size)
             row == flux_conserving_interpolation(
                        x, shifted(x, offset_data[i]), heap[rss.intensity][i])
         IN  resample_rows(i + 1, rss, rss_out, offset_data,
                           [heap EXCEPT ![rss_out.intensity][i] = row])

\* The call's outcome: the exception raised ("None" when it returned), the
\* RSS returned and the heap as the call leaves it.
\* apply that works on the RSS it is given instead of a copy.
wavelength_correction_apply_in_place(offset, rss, heap) ==
    LET done == resample_rows(1, rss, rss, offset.offset_data, heap)
    IN  IF done.raised # "None"
        THEN [raised |-> done.raised, result |-> None, heap |-> done.heap]
        ELSE [raised |-> "None", result |-> rss,
              heap |-> record_correction(rss, done.heap,
                                         WavelengthCorrectionName, "applied")]

wavelength_correction_apply(offset, rss, heap) ==
    LET copied == copy(rss, heap)
        rss_out == copied.obj
        done == resample_rows(1, rss, rss_out, offset.offset_data, copied.heap)
    IN  IF done.raised # "None"
        THEN [raised |-> done.raised, result |-> None, heap |-> done.heap]
        ELSE [raised |-> "None", result |-> rss_out,
              heap |-> record_correction(rss_out, done.heap,
                                         WavelengthCorrectionName, "applied")]

IntensityRows ==
    UNION {[1..nf -> [1..nw -> {R(1), R(3)}]] : nf \in 1..MaxFibres, nw \in 1..MaxWave}

ShiftValues == {R(0), R(1), RDiv(R(-1), R(2))}

WaveCorrInit ==
    /\ \E intensity \in IntensityRows,
          offset_data \in UNION {[1..n -> ShiftValues] : n \in 1..MaxFibres} \cup {None},
          history \in {<<>>, <<<<WavelengthCorrectionName, "applied">>>>} :
           wc = [stage |-> "called",
                 rss |-> [intensity |-> 1, variance |-> 2, history |-> 3,
                          wavelength_size |-> Len(intensity[1])],
                 heap |-> <<intensity,
                            [i \in 1..Len(intensity) |->
                                [k \in 1..Len(intensity[1]) |-> R(i + k)]],
                            history>>,
                 offset |-> WavelengthOffset(None, offset_data, None)]
    /\ dc = "idle" /\ dcOrig = "idle" /\ fcApplied = <<>> /\ fcCall = [op |-> "none"]
    /\ calib = <<None, None>> /\ starLib = {} /\ rcCall = [op |-> "none"]
    /\ es = [status |-> "idle"]
    /\ fci = [stage |-> "idle"]
    /\ wo = "idle" /\ fs = "idle" /\ written = {} /\ woCall = [op |-> "none"]
    /\ tw = [stage |-> "idle"]
    /\ sf = [stage |-> "idle"]
    /\ gm = [stage |-> "idle"]
    /\ au = [stage |-> "idle"]
    /\ rc = [stage |-> "idle"]
    /\ ae = [stage |-> "idle"]
    /\ de = [stage |-> "idle"]
    /\ rm = [stage |-> "idle"]

WaveCorrApply ==
    /\ wc.stage = "called"
    /\ LET out == wavelength_correction_apply(wc.offset, wc.rss, wc.heap)
       IN  wc' = [stage |-> "returned", rss |-> wc.rss, offset |-> wc.offset,
                  pre_heap |-> wc.heap, heap |-> out.heap,
                  raised |-> out.raised, result |-> out.result]
    /\ UNCHANGED exceptWaveCorr

WaveCorrNext == WaveCorrApply

-----------------------------------------------------------------------------
(* SolarCrossCorrOffset.compute_shift_from_twilight, from the chi-square of  *)
(* the cross-correlation on: the likelihood, the mean and best-fit shifts    *)
(* and the offset stored. A 1D numpy array is its dtype and its values;      *)
(* all_chi2 is a function of <<shift index, sigma index, fibre>>.            *)

\* The grids of shifts (in pixels) and of LSF widths a caller may pass.
ShiftGrids ==
    {[dtype |-> "float64", values |-> <<RDiv(R(-1), R(2)), RDiv(R(1), R(2))>>],
     [dtype |-> "float64", values |-> <<R(0)>>],
     [dtype |-> "int64", values |-> <<R(-1), R(1)>>]}

StdGrids ==
    {[dtype |-> "float64", values |-> <<RDiv(R(1), R(2)), R(1)>>],
     [dtype |-> "float64", values |-> <<R(1)>>]}

\* The chi-square of one grid point for a fibre with data. A fibre without
\* data (all NaN, or all zero) has no valid pixel: both sums of line 461 are
\* np.nansum over nothing, 0 / 0, and its chi-square is NaN at every grid point.
Chi2Values == {R(0), R(1)}

\* What casting NaN to int64 gives. The C conversion is undefined: numpy
\* yields the smallest int64 on x86-64 and 0 on aarch64. The smallest int64
\* is written as the smallest integer the model holds.
Int64Min == -2147483647
NaNAsInt64 == {R(Int64Min), R(0)}

\* The float operators of numpy on values that may be NaN
fmul(a, b) == IF IsNaN(a) \/ IsNaN(b) THEN NaN ELSE RMul(a, b)
fdiv(a, b) == IF IsNaN(a) \/ IsNaN(b) \/ (a[1] = 0 /\ b[1] = 0) THEN NaN ELSE RDiv(a, b)
fneg(a) == IF IsNaN(a) THEN NaN ELSE RNeg(a)

\* np.sum(a): NaN as soon as one value is NaN
sum(a) == IF \E k \in 1..Len(a) : IsNaN(a[k]) THEN NaN ELSE RSum(a)

\* np.nansum(a): the NaN values count as zero
nansum(a) == RSum([k \in 1..Len(a) |-> IF IsNaN(a[k]) THEN R(0) ELSE a[k]])

\* all_chi2.min(): NaN as soon as one value is NaN
Chi2Min(all_chi2) ==
    IF \E g \in DOMAIN all_chi2 : IsNaN(all_chi2[g]) THEN NaN
    ELSE CHOOSE c \in {all_chi2[g] : g \in DOMAIN all_chi2} :
             \A g \in DOMAIN all_chi2 : RLe(c, all_chi2[g])

\* An array of shape (n_shift, n_std, n_fibres) is the sequence of its
\* values in C order.
Values(a) == SubSeq(a, 1, Len(a))

\* Where element <<i, j, f>> is in that sequence.
At(i, j, f, shape) == ((i - 1) * shape[2] + (j - 1)) * shape[3] + f

\* np.exp(-(all_chi2 - all_chi2.min()) / 2), with the base e ** (1/2)
\* replaced by 2 to stay in the rationals: positive and decreasing alike.
\* The chi-squares of the model are whole numbers.
RawLikelihood(all_chi2, shape) ==
    LET lowest == Chi2Min(all_chi2)
    IN  Values([k \in 1..Product(shape) |->
                   LET g == <<((k - 1) \div (shape[2] * shape[3])) + 1,
                              (((k - 1) \div shape[3]) % shape[2]) + 1,
                              ((k - 1) % shape[3]) + 1>>
                   IN  IF IsNaN(all_chi2[g]) \/ IsNaN(lowest) THEN NaN
                       ELSE <<1, 2 ^ (RSub(all_chi2[g], lowest)[1])>>])

\* likelihood /= np.nansum(likelihood, axis=(0, 1))
Likelihood(all_chi2, shape) ==
    LET raw == RawLikelihood(all_chi2, shape)
        total == Values([f \in 1..shape[3] |->
                            nansum([k \in 1..(shape[1] * shape[2]) |->
                                       raw[(k - 1) * shape[3] + f]])])
    IN  Values([k \in 1..Len(raw) |-> fdiv(raw[k], total[((k - 1) % shape[3]) + 1])])

\* np.sum(likelihood.sum(axis=1) * pix_shift_array[:, np.newaxis], axis=0)
MeanPixShift(likelihood, shape, shifts, f) ==
    sum([i \in 1..shape[1] |->
            fmul(sum([j \in 1..shape[2] |-> likelihood[At(i, j, f, shape)]]),
                 shifts[i])])

\* np.sum(likelihood.sum(axis=0) * pix_std_array[:, np.newaxis], axis=0)
MeanStd(likelihood, shape, stds, f) ==
    sum([j \in 1..shape[2] |->
            fmul(sum([i \in 1..shape[1] |-> likelihood[At(i, j, f, shape)]]),
                 stds[j])])

\* np.argmax(likelihood.reshape((-1, n_fibres)), axis=0) for fibre f: the
\* first row, in C order over (shift, sigma), holding the largest likelihood;
\* the first row holding NaN when there is one.
BestFitIdx(likelihood, shape, f) ==
    LET rows == shape[1] * shape[2]
        at(k) == likelihood[(k - 1) * shape[3] + f]
    IN  IF \E k \in 1..rows : IsNaN(at(k))
        THEN CHOOSE k \in 1..rows :
                 IsNaN(at(k)) /\ \A l \in 1..(k - 1) : ~IsNaN(at(l))
        ELSE CHOOSE k \in 1..rows :
                 /\ \A l \in 1..rows : RLe(at(l), at(k))
                 /\ \A l \in 1..(k - 1) : RLt(at(l), at(k))

\* np.full_like(a, fill_value=np.nan): the array keeps the dtype of a, so
\* the NaN is cast when a holds integers.
full_like_nan(a, cast) ==
    [dtype |-> a.dtype,
     values |-> [k \in 1..Len(a.values) |-> IF a.dtype = "float64" THEN NaN ELSE cast]]

\* -a
negative(a) == [dtype |-> a.dtype, values |-> [k \in 1..Len(a.values) |-> fneg(a.values[k])]]

\* The likelihood-weighted means and the best fit of every fibre (lines 471
\* to 483).
grid_fit(n_fibres, pix_shift_array, pix_std_array, all_chi2) ==
    LET n_shift == Len(pix_shift_array.values)
        n_std == Len(pix_std_array.values)
        shape == <<n_shift, n_std, n_fibres>>
        likelihood == Likelihood(all_chi2, shape)
        best_fit_idx == Values([f \in 1..n_fibres |-> BestFitIdx(likelihood, shape, f)])
        \* np.unravel_index(best_fit_idx, all_chi2.shape[:-1])
        best_vel_idx == [f \in 1..n_fibres |-> ((best_fit_idx[f] - 1) \div n_std) + 1]
        best_std_idx == [f \in 1..n_fibres |-> ((best_fit_idx[f] - 1) % n_std) + 1]
    IN  [mean_pix_shift |->
             [dtype |-> "float64",
              values |-> Values([f \in 1..n_fibres |->
                             MeanPixShift(likelihood, shape, pix_shift_array.values, f)])],
         mean_std |->
             [dtype |-> "float64",
              values |-> Values([f \in 1..n_fibres |->
                             MeanStd(likelihood, shape, pix_std_array.values, f)])],
         best_sigma |->
             [dtype |-> pix_std_array.dtype,
              values |-> [f \in 1..n_fibres |-> pix_std_array.values[best_std_idx[f]]]],
         best_shift |->
             [dtype |-> pix_shift_array.dtype,
              values |-> [f \in 1..n_fibres |-> pix_shift_array.values[best_vel_idx[f]]]]]

\* The same call storing the best fit whatever use_mean says.
compute_shift_from_twilight_best_only(n_fibres, pix_shift_array, pix_std_array, all_chi2, use_mean, cast) ==
    LET fit == grid_fit(n_fibres, pix_shift_array, pix_std_array, all_chi2)
    IN  [offset |-> WavelengthOffset(None, negative(fit.best_shift),
                                     full_like_nan(fit.best_shift, cast)),
         result |-> ("best-fit" :> <<fit.best_shift, fit.best_sigma>>)
                    @@ ("mean" :> <<fit.mean_pix_shift, fit.mean_std>>)
                    @@ ("fibre_figures" :> None)]

\* The offset stored and the dictionary returned (lines 471 to 505); cast is
\* what this build makes of NaN as int64.
compute_shift_from_twilight(n_fibres, pix_shift_array, pix_std_array, all_chi2, use_mean, cast) ==
    LET fit == grid_fit(n_fibres, pix_shift_array, pix_std_array, all_chi2)
    IN  [offset |-> WavelengthOffset(
                        None,
                        IF use_mean THEN negative(fit.mean_pix_shift)
                        ELSE negative(fit.best_shift),
                        full_like_nan(fit.best_shift, cast)),
         result |-> ("best-fit" :> <<fit.best_shift, fit.best_sigma>>)
                    @@ ("mean" :> <<fit.mean_pix_shift, fit.mean_std>>)
                    @@ ("fibre_figures" :> None)]

\* SolarCrossCorrOffset.__init__ gives the correction an empty WavelengthOffset.
TwilightInit ==
    /\ \E n_fibres \in 1..MaxFibres, pix_shift_array \in ShiftGrids,
          pix_std_array \in StdGrids, use_mean \in BOOLEAN :
           \E no_data \in SUBSET (1..n_fibres),
              chi2 \in [(1..Len(pix_shift_array.values))
                           \X (1..Len(pix_std_array.values))
                           \X (1..n_fibres) -> Chi2Values] :
               tw = [stage |-> "called", n_fibres |-> n_fibres,
                     pix_shift_array |-> pix_shift_array,
                     pix_std_array |-> pix_std_array,
                     all_chi2 |-> [g \in DOMAIN chi2 |->
                                      IF g[3] \in no_data THEN NaN ELSE chi2[g]],
                     use_mean |-> use_mean,
                     offset |-> WavelengthOffset(None, None, None)]
    /\ dc = "idle" /\ dcOrig = "idle" /\ fcApplied = <<>> /\ fcCall = [op |-> "none"]
    /\ calib = <<None, None>> /\ starLib = {} /\ rcCall = [op |-> "none"]
    /\ es = [status |-> "idle"]
    /\ fci = [stage |-> "idle"]
    /\ wo = "idle" /\ fs = "idle" /\ written = {} /\ woCall = [op |-> "none"]
    /\ wc = [stage |-> "idle"]
    /\ sf = [stage |-> "idle"]
    /\ gm = [stage |-> "idle"]
    /\ au = [stage |-> "idle"]
    /\ rc = [stage |-> "idle"]
    /\ ae = [stage |-> "idle"]
    /\ de = [stage |-> "idle"]
    /\ rm = [stage |-> "idle"]

TwilightCompute ==
    /\ tw.stage = "called"
    /\ \E cast \in IF tw.pix_shift_array.dtype = "int64" THEN NaNAsInt64 ELSE {NaN} :
           LET out == compute_shift_from_twilight(
                          tw.n_fibres, tw.pix_shift_array, tw.pix_std_array,
                          tw.all_chi2, tw.use_mean, cast)
           IN  tw' = [tw EXCEPT !.stage = "returned", !.offset = out.offset]
                         @@ [result |-> out.result]
    /\ UNCHANGED exceptTwilight

TwilightNext == TwilightCompute

-----------------------------------------------------------------------------
(* compute_shift_from_twilight without wave_range, lines 413 to 426: the     *)
(* weights of get_solar_features, thresholded and zeroed at both ends.       *)

\* weights[:100] = 0 and weights[-100:] = 0
EdgePixels == 100

\* The float comparison a < b: False when a value is NaN
flt(a, b) == ~IsNaN(a) /\ ~IsNaN(b) /\ RLt(a, b)

\* np.nanpercentile(a, q) with the default linear interpolation: q is in
\* percent, the NaN values are left out, and the result lies at the position
\* q / 100 * (n - 1) of the n sorted values; NaN when there is none.
nanpercentile(a, q) ==
    LET valid == {k \in 1..Len(a) : ~IsNaN(a[k])}
        n == Cardinality(valid)
        \* the value at 0-based position p of the sorted values
        sorted(p) == CHOOSE v \in {a[k] : k \in valid} :
                         /\ Cardinality({k \in valid : RLt(a[k], v)}) <= p
                         /\ p < Cardinality({k \in valid : RLe(a[k], v)})
    IN  IF n = 0 THEN NaN
        ELSE LET position == RMul(RDiv(q, R(100)), R(n - 1))
                 below == position[1] \div position[2]
                 above == IF below + 1 < n THEN below + 1 ELSE below
                 low == sorted(below)
                 high == sorted(above)
             IN  RAdd(low, RMul(RSub(position, R(below)), RSub(high, low)))

\* Lines 416 to 418 on the weights get_solar_features returned.
feature_weights(weights, keep_features_frac) ==
    LET threshold == nanpercentile(weights, RSub(R(1), keep_features_frac))
        n == Len(weights)
    IN  [k \in 1..n |->
            IF k <= EdgePixels \/ k > n - EdgePixels THEN R(0)
            ELSE IF flt(weights[k], threshold) THEN R(0)
            ELSE weights[k]]

\* get_solar_features returns absolute values: no weight is negative.
WeightValues == {R(0), R(1), R(2), NaN}

KeepFractions == {RDiv(R(1), R(10)), RDiv(R(1), R(2))}

\* A spectrum shorter than EdgePixels, or one with EdgePixels pixels of the
\* same weight at each end.
FeaturesInit ==
    /\ \E n \in 1..(MaxWave + 1), pad \in {0, EdgePixels},
          edge \in WeightValues \ {NaN}, keep_features_frac \in KeepFractions :
           \E middle \in [1..n -> WeightValues] :
               sf = [stage |-> "called",
                     weights |-> [k \in 1..pad |-> edge] \o middle \o [k \in 1..pad |-> edge],
                     keep_features_frac |-> keep_features_frac]
    /\ dc = "idle" /\ dcOrig = "idle" /\ fcApplied = <<>> /\ fcCall = [op |-> "none"]
    /\ calib = <<None, None>> /\ starLib = {} /\ rcCall = [op |-> "none"]
    /\ es = [status |-> "idle"]
    /\ fci = [stage |-> "idle"]
    /\ wo = "idle" /\ fs = "idle" /\ written = {} /\ woCall = [op |-> "none"]
    /\ wc = [stage |-> "idle"]
    /\ tw = [stage |-> "idle"]
    /\ gm = [stage |-> "idle"]
    /\ au = [stage |-> "idle"]
    /\ rc = [stage |-> "idle"]
    /\ ae = [stage |-> "idle"]
    /\ de = [stage |-> "idle"]
    /\ rm = [stage |-> "idle"]

FeaturesWeights ==
    /\ sf.stage = "called"
    /\ sf' = [sf EXCEPT !.stage = "weights"]
                 @@ [out |-> feature_weights(sf.weights, sf.keep_features_frac)]
    /\ UNCHANGED exceptFeatures

FeaturesNext == FeaturesWeights

-----------------------------------------------------------------------------
(* compute_shift_from_twilight with a wave_range: the weights of lines 420   *)
(* to 422 and the grid of weights compute_grid_of_models makes of them, the  *)
(* weights the chi-square of lines 461 to 469 gives to the pixels.           *)

\* The radius of the kernel of scipy.ndimage.gaussian_filter:
\* int(truncate * sigma + 0.5), with truncate = 2.0 at line 337.
kernel_radius(sigma) ==
    LET r == RAdd(RMul(R(2), sigma), RDiv(R(1), R(2)))
    IN  r[1] \div r[2]

\* The weight of the kernel at distance x, before normalisation:
\* exp(-x ** 2 / (2 * sigma ** 2)), written 2 ** -(x ** 2) to stay in the
\* rationals: positive, symmetric and decreasing alike.
kernel_weight(x) == <<1, 2 ^ (x * x)>>

\* The index mode "reflect" reads outside 1..n: (b a | a b c | c b).
reflect(k, n) == IF k < 1 THEN 1 - k ELSE IF k > n THEN 2 * n + 1 - k ELSE k

\* gaussian_filter(a, sigma, truncate=2.0)
gaussian_filter(a, sigma) ==
    LET radius == kernel_radius(sigma)
        offsets == [x \in 1..(2 * radius + 1) |-> x - radius - 1]
        norm == RSum([x \in 1..(2 * radius + 1) |-> kernel_weight(offsets[x])])
    IN  [p \in 1..Len(a) |->
            RSum([x \in 1..(2 * radius + 1) |->
                     RMul(RDiv(kernel_weight(offsets[x]), norm),
                          a[reflect(p + offsets[x], Len(a))])])]

\* The weights of one grid point (lines 326 and 334 to 338): shifted with
\* the pixels, smoothed and normalised.
interp_sun_weight(velshift, gauss_std, pix_array, weights) ==
    LET new_pixel_array == [k \in 1..Len(pix_array) |-> RAdd(pix_array[k], velshift)]
        smoothed == gaussian_filter(
                        flux_conserving_interpolation(new_pixel_array, pix_array, weights),
                        gauss_std)
        total == nansum(smoothed)
    IN  [p \in 1..Len(smoothed) |-> fdiv(smoothed[p], total)]

\* The weights_grid of compute_grid_of_models, by <<i, j>>; models_grid is
\* built next to it from the solar spectrum and does not enter the weights.
compute_grid_of_models(pix_shift_array, pix_std_array, pix_array, weights) ==
    [g \in (1..Len(pix_shift_array)) \X (1..Len(pix_std_array)) |->
        Values(interp_sun_weight(pix_shift_array[g[1]], pix_std_array[g[2]],
                                 pix_array, weights))]

\* np.array((new_wavelength >= wave_range[0]) & (new_wavelength <= wave_range[-1]),
\*          dtype=float)
range_weights(new_wavelength, wave_range) ==
    [k \in 1..Len(new_wavelength) |->
        IF RLe(wave_range[1], new_wavelength[k])
           /\ RLe(new_wavelength[k], wave_range[Len(wave_range)])
        THEN R(1) ELSE R(0)]

\* np.arange(n)
pixels(n) == [k \in 1..n |-> R(k - 1)]

\* The widths of the line spread function tried: their kernels have radius
\* 0, 1 and 2.
LsfGrids ==
    {<<RDiv(R(1), R(10))>>, <<RDiv(R(1), R(10)), RDiv(R(1), R(2))>>, <<R(1)>>}

RangeInit ==
    /\ \E n \in 2..(MaxWave + 2), pix_shift_array \in ShiftGrids, pix_std_array \in LsfGrids :
           \E lo \in 0..(n + 1), hi \in 0..(n + 1) :
               /\ lo <= hi
               /\ gm = [stage |-> "called",
                        new_wavelength |-> [k \in 1..n |-> R(k)],
                        wave_range |-> <<R(lo), R(hi)>>,
                        pix_shift_array |-> pix_shift_array.values,
                        pix_std_array |-> pix_std_array]
    /\ dc = "idle" /\ dcOrig = "idle" /\ fcApplied = <<>> /\ fcCall = [op |-> "none"]
    /\ calib = <<None, None>> /\ starLib = {} /\ rcCall = [op |-> "none"]
    /\ es = [status |-> "idle"]
    /\ fci = [stage |-> "idle"]
    /\ wo = "idle" /\ fs = "idle" /\ written = {} /\ woCall = [op |-> "none"]
    /\ wc = [stage |-> "idle"]
    /\ tw = [stage |-> "idle"]
    /\ sf = [stage |-> "idle"]
    /\ au = [stage |-> "idle"]
    /\ rc = [stage |-> "idle"]
    /\ ae = [stage |-> "idle"]
    /\ de = [stage |-> "idle"]
    /\ rm = [stage |-> "idle"]

RangeGrid ==
    /\ gm.stage = "called"
    /\ LET weights == range_weights(gm.new_wavelength, gm.wave_range)
       IN  gm' = [gm EXCEPT !.stage = "grid"]
                     @@ [weights |-> weights,
                         weights_grid |-> compute_grid_of_models(
                             gm.pix_shift_array, gm.pix_std_array,
                             pixels(Len(gm.new_wavelength)), weights)]
    /\ UNCHANGED exceptRange

RangeNext == RangeGrid

-----------------------------------------------------------------------------
(* FluxCalibration.get_response_curve (koala/corrections/flux_calibration.py) *)
(* called with pol_deg=None, gauss_smooth_sigma=None, mask_absorption=False   *)
(* and plot=False: the linear interpolation branch.                           *)

\* np.cumsum(a)
RECURSIVE cumsum(_)
cumsum(a) ==
    IF a = <<>> THEN <<>>
    ELSE LET front == cumsum(SubSeq(a, 1, Len(a) - 1))
         IN  Append(front, IF front = <<>> THEN a[Len(a)]
                           ELSE RAdd(front[Len(front)], a[Len(a)]))

\* interp1d(x, y, fill_value=0, bounds_error=False) called at new_x: linear
\* between the points, 0 outside them.
interp1d(x, y, new_x) ==
    IF RLt(new_x, x[1]) \/ RLt(x[Len(x)], new_x) THEN R(0)
    ELSE interp1(new_x, x, y)

\* The values r the interpolator is built on (lines 368 to 392); wave has
\* two points or more.
response_values(wave, obs_spectra, ref_spectra) ==
    LET wave_edges == bin_edges(wave)
        widths == diff(wave_edges)
        cum_response == cumsum([k \in 1..Len(wave) |->
                                   RMul(RDiv(obs_spectra[k], ref_spectra[k]), widths[k])])
        \* np.insert(cum_response, 0,
        \*           cum_response[0] - (cum_response[1] - cum_response[0]) / 2)
        inserted == <<RSub(cum_response[1],
                           RDiv(RSub(cum_response[2], cum_response[1]), R(2)))>>
                    \o cum_response
        steps == diff(inserted)
    IN  [k \in 1..Len(wave) |-> RDiv(steps[k], widths[k])]

\* get_response_curve(...)[0] called at new_x
get_response_curve(wave, obs_spectra, ref_spectra, new_x) ==
    interp1d(wave, response_values(wave, obs_spectra, ref_spectra), new_x)

ObservedValues == {R(v) : v \in 0..MaxValue}

ReferenceValues == {R(v) : v \in 1..MaxValue}

ResponseInit ==
    /\ \E wave \in Grids(1, MaxGrid) :
           \E obs_spectra \in [1..Len(wave) -> ObservedValues],
              ref_spectra \in [1..Len(wave) -> ReferenceValues] :
               rc = [stage |-> "called", wave |-> wave,
                     obs_spectra |-> obs_spectra, ref_spectra |-> ref_spectra]
    /\ dc = "idle" /\ dcOrig = "idle" /\ fcApplied = <<>> /\ fcCall = [op |-> "none"]
    /\ calib = <<None, None>> /\ starLib = {} /\ rcCall = [op |-> "none"]
    /\ es = [status |-> "idle"]
    /\ fci = [stage |-> "idle"]
    /\ wo = "idle" /\ fs = "idle" /\ written = {} /\ woCall = [op |-> "none"]
    /\ wc = [stage |-> "idle"]
    /\ tw = [stage |-> "idle"]
    /\ sf = [stage |-> "idle"]
    /\ gm = [stage |-> "idle"]
    /\ au = [stage |-> "idle"]
    /\ ae = [stage |-> "idle"]
    /\ de = [stage |-> "idle"]
    /\ rm = [stage |-> "idle"]

\* The call, and the function it returned evaluated at the input wavelengths.
ResponseCurve ==
    /\ rc.stage = "called"
    /\ rc' = [rc EXCEPT !.stage = "returned"]
                 @@ [response |-> [k \in 1..Len(rc.wave) |->
                                      get_response_curve(rc.wave, rc.obs_spectra,
                                                         rc.ref_spectra, rc.wave[k])]]
    /\ UNCHANGED exceptResponse

ResponseNext == ResponseCurve

-----------------------------------------------------------------------------
(* AtmosphericExtCorrection (pykoala/corrections/atmospheric_corrections.py) *)
(* applied to an RSS: the container is a record of references into a heap,    *)
(* as for WavelengthCorrection, with its wavelength array and info["airmass"] *)

AtmosphericExtinctionName == "AtmosphericExtinction"

\* 10 ** x for a whole x, the only exponents the curves and airmasses of the
\* model give.
Pow10(x) == IF x[1] >= 0 THEN <<10 ^ x[1], 1>> ELSE <<1, 10 ^ (-x[1])>>

\* AtmosphericExtCorrection.extinction at one wavelength:
\* 10 ** (0.4 * airmass * np.interp(wavelength, curve wavelengths, curve))
extinction(self, wavelength, airmass) ==
    Pow10(RMul(RMul(RDiv(R(2), R(5)), airmass),
               interp1(wavelength, self.extinction_correction_wave,
                       self.extinction_correction)))

\* The arrays of the container returned: each row times the extinction, and
\* times its square for the variance.
scaled(rows, factors) ==
    [i \in 1..Len(rows) |-> [k \in 1..Len(rows[i]) |-> RMul(rows[i][k], factors[k])]]

\* The call's outcome: the exception raised ("None" when it returned), the
\* container returned and the heap as the call leaves it.
\* apply that takes a zero airmass for a missing one.
atmospheric_ext_apply_falsy(self, spectra_container, airmass, heap) ==
    LET copied == copy(spectra_container, heap)
        out == copied.obj
        used == IF airmass = None \/ airmass = R(0) THEN spectra_container.airmass
                ELSE airmass
    IN  IF self.extinction_correction = None
        THEN [raised |-> "AttributeError", result |-> None, heap |-> copied.heap]
        ELSE LET ext == [k \in 1..Len(out.wavelength) |->
                            extinction(self, out.wavelength[k], used)]
                 ext2 == [k \in 1..Len(ext) |-> RMul(ext[k], ext[k])]
                 heap1 == [copied.heap EXCEPT
                              ![out.intensity] = scaled(@, ext),
                              ![out.variance] = scaled(@, ext2)]
             IN  [raised |-> "None", result |-> out,
                  heap |-> record_correction(out, heap1,
                                             AtmosphericExtinctionName, "applied")]

atmospheric_ext_apply(self, spectra_container, airmass, heap) ==
    LET copied == copy(spectra_container, heap)
        out == copied.obj
        used == IF airmass = None THEN spectra_container.airmass ELSE airmass
    IN  IF self.extinction_correction = None
        THEN [raised |-> "AttributeError", result |-> None, heap |-> copied.heap]
        ELSE LET ext == [k \in 1..Len(out.wavelength) |->
                            extinction(self, out.wavelength[k], used)]
                 ext2 == [k \in 1..Len(ext) |-> RMul(ext[k], ext[k])]
                 heap1 == [copied.heap EXCEPT
                              ![out.intensity] = scaled(@, ext),
                              ![out.variance] = scaled(@, ext2)]
             IN  [raised |-> "None", result |-> out,
                  heap |-> record_correction(out, heap1,
                                             AtmosphericExtinctionName, "applied")]

\* Extinction curves given at the wavelengths 1 and 3, and no curve at all.
ExtinctionCurves ==
    {[extinction_correction |-> None, extinction_correction_wave |-> None]}
    \cup {[extinction_correction |-> <<R(a), R(b)>>,
           extinction_correction_wave |-> <<R(1), R(3)>>] : a \in {0, 2}, b \in {0, 2}}

\* Airmasses whose 0.4-fold is whole.
Airmasses == {R(0), RDiv(R(5), R(2)), R(5)}

ExtinctionInit ==
    /\ \E intensity \in IntensityRows, self \in ExtinctionCurves,
          airmass \in {None, R(0), RDiv(R(5), R(2))}, info_airmass \in Airmasses :
           ae = [stage |-> "called",
                 self |-> self,
                 airmass |-> airmass,
                 rss |-> [intensity |-> 1, variance |-> 2, history |-> 3,
                          wavelength |-> [k \in 1..Len(intensity[1]) |-> R(k)],
                          airmass |-> info_airmass],
                 heap |-> <<intensity,
                            [i \in 1..Len(intensity) |->
                                [k \in 1..Len(intensity[1]) |-> R(i + k)]],
                            <<>>>>]
    /\ dc = "idle" /\ dcOrig = "idle" /\ fcApplied = <<>> /\ fcCall = [op |-> "none"]
    /\ calib = <<None, None>> /\ starLib = {} /\ rcCall = [op |-> "none"]
    /\ es = [status |-> "idle"]
    /\ fci = [stage |-> "idle"]
    /\ wo = "idle" /\ fs = "idle" /\ written = {} /\ woCall = [op |-> "none"]
    /\ wc = [stage |-> "idle"]
    /\ tw = [stage |-> "idle"]
    /\ sf = [stage |-> "idle"]
    /\ gm = [stage |-> "idle"]
    /\ au = [stage |-> "idle"]
    /\ rc = [stage |-> "idle"]
    /\ de = [stage |-> "idle"]
    /\ rm = [stage |-> "idle"]

ExtinctionApply ==
    /\ ae.stage = "called"
    /\ LET out == atmospheric_ext_apply(ae.self, ae.rss, ae.airmass, ae.heap)
       IN  ae' = [stage |-> "returned", self |-> ae.self, airmass |-> ae.airmass,
                  rss |-> ae.rss, pre_heap |-> ae.heap, heap |-> out.heap,
                  raised |-> out.raised, result |-> out.result]
    /\ UNCHANGED exceptExtinction

ExtinctionNext == ExtinctionApply

-----------------------------------------------------------------------------
(* detect_edge (koala/ancillary.py) on the intensity of an RSS, a sequence    *)
(* of fibres, each a sequence over the wavelengths.                           *)

\* np.sum(rss.intensity, 0) at the wavelength index k: NaN as soon as one
\* fibre is NaN there.
collapsed(intensity, k) == sum([i \in 1..Len(intensity) |-> intensity[i][k]])

\* list.index(value): the first position holding the value, counted from 0.
index(list, value) ==
    (CHOOSE k \in 1..Len(list) :
         list[k] = value /\ \A l \in 1..(k - 1) : list[l] # value) - 1

\* The call's outcome: the exception raised ("None" when it returned) and
\* the tuple (min_w, min_index, max_w, max_index).
detect_edge(intensity, wavelength) ==
    LET nans == {k \in 1..Len(wavelength) : ~IsNaN(collapsed(intensity, k))}
        valid == {wavelength[k] : k \in nans}
    IN  IF valid = {}
        THEN [raised |-> "ValueError", result |-> None]
        ELSE LET min_w == CHOOSE w \in valid : \A v \in valid : RLe(w, v)
                 max_w == CHOOSE w \in valid : \A v \in valid : RLe(v, w)
             IN  [raised |-> "None",
                  result |-> <<min_w, index(wavelength, min_w),
                               max_w, index(wavelength, max_w)>>]

\* The intensities of an RSS: a number, or NaN where the data is masked.
MaskedRows ==
    UNION {[1..nf -> [1..nw -> {R(1), NaN}]] : nf \in 1..MaxFibres, nw \in 1..(MaxWave + 1)}

EdgeInit ==
    /\ \E intensity \in MaskedRows :
           de = [stage |-> "called", intensity |-> intensity,
                 wavelength |-> [k \in 1..Len(intensity[1]) |-> R(2 * k + 1)]]
    /\ dc = "idle" /\ dcOrig = "idle" /\ fcApplied = <<>> /\ fcCall = [op |-> "none"]
    /\ calib = <<None, None>> /\ starLib = {} /\ rcCall = [op |-> "none"]
    /\ es = [status |-> "idle"]
    /\ fci = [stage |-> "idle"]
    /\ wo = "idle" /\ fs = "idle" /\ written = {} /\ woCall = [op |-> "none"]
    /\ wc = [stage |-> "idle"]
    /\ tw = [stage |-> "idle"]
    /\ sf = [stage |-> "idle"]
    /\ gm = [stage |-> "idle"]
    /\ au = [stage |-> "idle"]
    /\ rc = [stage |-> "idle"]
    /\ ae = [stage |-> "idle"]
    /\ rm = [stage |-> "idle"]

DetectEdge ==
    /\ de.stage = "called"
    /\ LET out == detect_edge(de.intensity, de.wavelength)
       IN  de' = [de EXCEPT !.stage = "returned"]
                     @@ [raised |-> out.raised, result |-> out.result]
    /\ UNCHANGED exceptEdge

EdgeNext == DetectEdge

-----------------------------------------------------------------------------
(* running_mean (koala/ancillary.py) for a window of one element or more *)

\* a[n:] and a[:-n] for n >= 1
from(a, n) == SubSeq(a, n + 1, Len(a))
until(a, n) == SubSeq(a, 1, Len(a) - n)

running_mean(x, n_window) ==
    LET c == cumsum(<<R(0)>> \o x)
        ahead == from(c, n_window)
        behind == until(c, n_window)
    IN  [k \in 1..Len(ahead) |-> RDiv(RSub(ahead[k], behind[k]), R(n_window))]

RunningMeanInit ==
    /\ \E n \in 0..MaxGrid, n_window \in 1..(MaxWindow + 1) :
           \E x \in [1..n -> ObservedValues] :
               rm = [stage |-> "called", x |-> x, n_window |-> n_window]
    /\ dc = "idle" /\ dcOrig = "idle" /\ fcApplied = <<>> /\ fcCall = [op |-> "none"]
    /\ calib = <<None, None>> /\ starLib = {} /\ rcCall = [op |-> "none"]
    /\ es = [status |-> "idle"]
    /\ fci = [stage |-> "idle"]
    /\ wo = "idle" /\ fs = "idle" /\ written = {} /\ woCall = [op |-> "none"]
    /\ wc = [stage |-> "idle"]
    /\ tw = [stage |-> "idle"]
    /\ sf = [stage |-> "idle"]
    /\ gm = [stage |-> "idle"]
    /\ au = [stage |-> "idle"]
    /\ rc = [stage |-> "idle"]
    /\ ae = [stage |-> "idle"]
    /\ de = [stage |-> "idle"]

RunningMean ==
    /\ rm.stage = "called"
    /\ rm' = [rm EXCEPT !.stage = "returned"]
                 @@ [result |-> running_mean(rm.x, rm.n_window)]
    /\ UNCHANGED exceptRunningMean

RunningMeanNext == RunningMean

-----------------------------------------------------------------------------
(* FluxCalibration.auto (koala/corrections/flux_calibration.py). The stellar *)
(* extraction, the interpolation of the template and the response curve are   *)
(* modelled above; here their results are the records of what they were made  *)
(* from, and a container is its identity and its wavelength array.            *)

MaxStars == 2

\* Python's True, and what an if takes for true among None, True, False and
\* the strings.
True == <<"True">>
False == <<"False">>
Truthy(v) == v \notin {None, False, <<>>}

\* os.path.join(save, 'response_' + name) + '_transfer_function.dat'
response_file(save, name) == <<save, name>>

\* The entry of one star (lines 103 to 117): the extraction from a deep copy
\* of the container, the template interpolated to the wavelengths of the
\* extraction, and the response curve called at a copy of the wavelengths of
\* the container, one value each.
star_entry(container, template) ==
    LET result == [mean_wave |-> <<"mean_wave", container.id>>,
                   optimal |-> <<"optimal", container.id>>]
    IN  [extraction |-> result,
         interp |-> [new_wavelength |-> result.mean_wave,
                     wavelength |-> template[1], spectra |-> template[2]],
         response |-> [k \in 1..Len(container.wavelength) |->
                          [observed |-> result.optimal, reference |-> template[2],
                           at |-> container.wavelength[k]]],
         response_fig |-> None]

\* The loop over the stars from the i-th name on (lines 94 to 123); acc is
\* the call's outcome so far: the exception raised ("None" when there is
\* none), the dictionary, the files saved and <<calib_wave, calib_spectra>>;
\* fits holds what the extraction of each star ends with.
\* The loop reading the template of the file name instead of the star's.
RECURSIVE auto_loop_by_name(_, _, _, _, _, _, _, _)
auto_loop_by_name(i, acc, names, data, calib_stars, save, fits, lib) ==
    IF i > Len(names) THEN acc
    ELSE IF i > Len(calib_stars) THEN [acc EXCEPT !.raised = "IndexError"]
    ELSE LET read == read_calibration_star(names[i], None, lib, acc.calib)
             next == [acc EXCEPT !.calib = read.calib]
         IN  IF read.raised # "None" THEN [next EXCEPT !.raised = read.raised]
             ELSE IF i > Len(data) THEN [next EXCEPT !.raised = "IndexError"]
             ELSE IF fits[i] # "converged" THEN [next EXCEPT !.raised = fits[i]]
             ELSE LET entry == star_entry(data[i], read.calib)
                      results ==
                          [n \in DOMAIN acc.results \cup {names[i]} |->
                              IF n = names[i] THEN entry ELSE acc.results[n]]
                      kept == [next EXCEPT !.results = results]
                  IN  IF ~Truthy(save)
                      THEN auto_loop_by_name(i + 1, kept, names, data, calib_stars, save, fits, lib)
                      ELSE IF save = True THEN [kept EXCEPT !.raised = "TypeError"]
                      ELSE auto_loop_by_name(i + 1,
                                [kept EXCEPT !.files = @ \cup {response_file(save, names[i])}],
                                names, data, calib_stars, save, fits, lib)

RECURSIVE auto_loop(_, _, _, _, _, _, _, _)
auto_loop(i, acc, names, data, calib_stars, save, fits, lib) ==
    IF i > Len(names) THEN acc
    ELSE IF i > Len(calib_stars) THEN [acc EXCEPT !.raised = "IndexError"]
    ELSE LET read == read_calibration_star(calib_stars[i], None, lib, acc.calib)
             next == [acc EXCEPT !.calib = read.calib]
         IN  IF read.raised # "None" THEN [next EXCEPT !.raised = read.raised]
             ELSE IF i > Len(data) THEN [next EXCEPT !.raised = "IndexError"]
             ELSE IF fits[i] # "converged" THEN [next EXCEPT !.raised = fits[i]]
             ELSE LET entry == star_entry(data[i], read.calib)
                      results ==
                          [n \in DOMAIN acc.results \cup {names[i]} |->
                              IF n = names[i] THEN entry ELSE acc.results[n]]
                      kept == [next EXCEPT !.results = results]
                  IN  IF ~Truthy(save)
                      THEN auto_loop(i + 1, kept, names, data, calib_stars, save, fits, lib)
                      ELSE IF save = True THEN [kept EXCEPT !.raised = "TypeError"]
                      ELSE auto_loop(i + 1,
                                [kept EXCEPT !.files = @ \cup {response_file(save, names[i])}],
                                names, data, calib_stars, save, fits, lib)

\* auto with the loop that reads the template of the file name.
auto_template_by_name(data, calib_stars, save, fnames, fits, lib, cal) ==
    auto_loop_by_name(1, [raised |-> "None", results |-> <<>>, files |-> {}, calib |-> cal],
                      IF fnames = None THEN calib_stars ELSE fnames,
                      data, calib_stars, save, fits, lib)

auto(data, calib_stars, save, fnames, fits, lib, cal) ==
    auto_loop(1, [raised |-> "None", results |-> <<>>, files |-> {}, calib |-> cal],
              IF fnames = None THEN calib_stars ELSE fnames,
              data, calib_stars, save, fits, lib)

\* Names of stars: two of the library and one it does not hold.
AutoStars == {<<"h">>, Feige, <<"F">>}

AutoFileNames == {<<"h">>, <<"F">>}

SaveArgs == {None, True, <<"o">>}

AutoInit ==
    /\ \E n \in 1..MaxStars, save \in SaveArgs :
           \E sizes \in [1..n -> 1..MaxWave], calib_stars \in [1..n -> AutoStars],
              fnames \in {None} \cup UNION {[1..l -> AutoFileNames] : l \in 1..MaxStars} :
               au = [stage |-> "called",
                     data |-> [i \in 1..n |->
                                  [id |-> i, wavelength |-> [k \in 1..sizes[i] |-> R(k)]]],
                     calib_stars |-> calib_stars, save |-> save, fnames |-> fnames]
    /\ dc = "idle" /\ dcOrig = "idle" /\ fcApplied = <<>> /\ fcCall = [op |-> "none"]
    /\ calib = <<None, None>> /\ starLib = {} /\ rcCall = [op |-> "none"]
    /\ es = [status |-> "idle"]
    /\ fci = [stage |-> "idle"]
    /\ wo = "idle" /\ fs = "idle" /\ written = {} /\ woCall = [op |-> "none"]
    /\ wc = [stage |-> "idle"]
    /\ tw = [stage |-> "idle"]
    /\ sf = [stage |-> "idle"]
    /\ gm = [stage |-> "idle"]
    /\ rc = [stage |-> "idle"]
    /\ ae = [stage |-> "idle"]
    /\ de = [stage |-> "idle"]
    /\ rm = [stage |-> "idle"]

Auto ==
    /\ au.stage = "called"
    /\ \E fits \in [1..MaxStars -> {"converged", "RuntimeError"}] :
           LET out == auto(au.data, au.calib_stars, au.save, au.fnames, fits,
                           LibFiles, <<None, None>>)
           IN  au' = [au EXCEPT !.stage = "returned"]
                         @@ [raised |-> out.raised, results |-> out.results,
                             files |-> out.files]
    /\ UNCHANGED exceptAuto

AutoNext == Auto

-----------------------------------------------------------------------------
(* Specifications, one per component *)

SpecFlux == FluxInit /\ [][FluxNext]_vars

SpecStar == StarInit /\ [][StarNext]_vars

SpecExtract == ExtractInit /\ [][ExtractNext]_vars

SpecInterp == InterpInit /\ [][InterpNext]_vars

SpecOffset == OffsetInit /\ [][OffsetNext]_vars

SpecWaveCorr == WaveCorrInit /\ [][WaveCorrNext]_vars

SpecTwilight == TwilightInit /\ [][TwilightNext]_vars

SpecAuto == AutoInit /\ [][AutoNext]_vars

SpecEdge == EdgeInit /\ [][EdgeNext]_vars

SpecRunningMean == RunningMeanInit /\ [][RunningMeanNext]_vars

SpecExtinction == ExtinctionInit /\ [][ExtinctionNext]_vars

SpecResponse == ResponseInit /\ [][ResponseNext]_vars

SpecRange == RangeInit /\ [][RangeNext]_vars

SpecFeatures == FeaturesInit /\ [][FeaturesNext]_vars

-----------------------------------------------------------------------------
(* Claims on FluxCalibration.read_calibration_star *)

\* C4: read_calibration_star called with a name that, once normalised,
\* matches no file of the star library raises FileNotFoundError, also when
\* a path is given, and leaves calib_wave and calib_spectra as they were.
C4_UnknownStarRaises ==
    (/\ rcCall.op = "read"
     /\ rcCall.name # None
     /\ rcCall.name # <<>>
     /\ Match(list_available_stars(starLib)[1], normalise_name(rcCall.name)) = {}) =>
        /\ rcCall.raised = "FileNotFoundError"
        /\ calib = rcCall.pre

\* An unknown star asked for with the path of an existing file, after an
\* earlier call loaded a calibration spectrum.
C4_Witness ==
    /\ rcCall.op = "read"
    /\ rcCall.name \notin {None, <<>>}
    /\ Match(list_available_stars(starLib)[1], normalise_name(rcCall.name)) = {}
    /\ rcCall.path \in UserFiles
    /\ rcCall.pre # <<None, None>>
    /\ rcCall.pre # loadtxt(rcCall.path)
    /\ rcCall.raised = "FileNotFoundError"

-----------------------------------------------------------------------------
(* Claims on FluxCalibration.extract_stellar_flux *)

\* C5: when the profile fit of a wavelength chunk does not converge the call
\* ends by raising FitError to the caller: no later chunk is fitted, the fit
\* is not retried and no partial result dictionary is returned.
C5_NonConvergenceRaisesFitError ==
    (es.status # "idle" /\ \E k \in 1..Len(es.attempts) : es.attempts[k][2] = "RuntimeError") =>
        /\ es.status = "raised"
        /\ es.exc = "FitError"
        /\ es.attempts[Len(es.attempts)][2] = "RuntimeError"
        /\ \A j, k \in 1..Len(es.attempts) : j # k => es.attempts[j][1] # es.attempts[k][1]
        /\ es.result = None

-----------------------------------------------------------------------------
(* Claims on flux_conserving_interpolation *)

Finite(spectra) == \A k \in 1..Len(spectra) : ~IsNaN(spectra[k])

\* The outer bin edges of the new grid enclose those of the original grid.
Encloses(new_edges, old_edges) ==
    /\ RLe(new_edges[1], old_edges[1])
    /\ RLe(old_edges[Len(old_edges)], new_edges[Len(new_edges)])

\* The sum over the bins of a grid of spectrum times bin width.
TotalFlux(wavelength, spectra) ==
    LET widths == diff(bin_edges(wavelength))
    IN  RSum([k \in 1..Len(spectra) |-> RMul(spectra[k], widths[k])])

\* C6: flux_conserving_interpolation conserves the total flux: for strictly
\* increasing grids of two or more points and a finite spectrum, whenever the
\* outer bin edges of new_wavelength enclose those of wavelength, the sum of
\* new_spectra times new bin width equals the sum of spectra times original
\* bin width; a new bin lying entirely outside the original edges gets 0.
C6_FluxConserved ==
    (fci.stage = "returned" /\ Finite(fci.spectra)) =>
        LET old_edges == bin_edges(fci.wavelength)
            new_edges == bin_edges(fci.new_wavelength)
        IN  /\ Encloses(new_edges, old_edges) =>
                   TotalFlux(fci.new_wavelength, fci.new_spectra)
                       = TotalFlux(fci.wavelength, fci.spectra)
            /\ \A k \in 1..Len(fci.new_wavelength) :
                   (\/ RLe(new_edges[k + 1], old_edges[1])
                    \/ RLe(old_edges[Len(old_edges)], new_edges[k])) =>
                       fci.new_spectra[k] = R(0)

\* A non-zero spectrum resampled on an enclosing grid that is not the
\* original one, one of whose bins lies outside the original edges.
C6_Witness ==
    /\ fci.stage = "returned"
    /\ Finite(fci.spectra)
    /\ fci.new_wavelength # fci.wavelength
    /\ Encloses(bin_edges(fci.new_wavelength), bin_edges(fci.wavelength))
    /\ TotalFlux(fci.wavelength, fci.spectra) # R(0)
    /\ \E k \in 1..Len(fci.new_wavelength) :
           /\ RLe(bin_edges(fci.wavelength)[Len(fci.wavelength) + 1],
                  bin_edges(fci.new_wavelength)[k])
           /\ fci.new_spectra[k] = R(0)
    /\ \E k \in 1..Len(fci.new_wavelength) :
           \A j \in 1..Len(fci.spectra) : fci.new_spectra[k] # fci.spectra[j]

-----------------------------------------------------------------------------
(* Claims on WavelengthOffset *)

\* C7: the FITS round trip: tofits writes an empty primary HDU, then the
\* OFFSET image HDU, then the OFFSET_ERR image HDU, and from_fits on that
\* file returns an object whose offset_data and offset_error are the saved
\* ones (extension 1 the offset, extension 2 its error) and whose path is
\* the file read.
C7_FitsRoundTrip ==
    /\ \A p \in written :
        /\ Len(fs[p]) = 3
        /\ fs[p][1] = PrimaryHDU
        /\ fs[p][2].kind = "ImageHDU" /\ fs[p][2].name = "OFFSET"
        /\ fs[p][3].kind = "ImageHDU" /\ fs[p][3].name = "OFFSET_ERR"
    /\ (woCall.op = "from_fits" /\ woCall.path \in written) =>
        /\ woCall.raised = "None"
        /\ woCall.result.offset_data = wo.offset_data
        /\ woCall.result.offset_error = wo.offset_error
        /\ woCall.result.path = woCall.path

\* An offset with an error array other than its data, saved over a file that
\* held another offset, and read back.
C7_Witness ==
    /\ woCall.op = "from_fits"
    /\ woCall.path \in written
    /\ woCall.path # wo.path
    /\ wo.offset_data # None
    /\ wo.offset_error # None
    /\ wo.offset_error # wo.offset_data
    /\ woCall.result.offset_data = wo.offset_data

\* C8: tofits writes to output_path when it is given and otherwise overwrites
\* the file at self.path; with both None it raises NameError and writes no
\* file. It never changes self.path, offset_data or offset_error.
C8_ToFitsTarget ==
    woCall.op = "tofits" =>
        LET target == IF woCall.path # None THEN woCall.path ELSE woCall.pre_wo.path
            saved == <<PrimaryHDU, ImageHDU(woCall.pre_wo.offset_data, "OFFSET"),
                       ImageHDU(woCall.pre_wo.offset_error, "OFFSET_ERR")>>
        IN  /\ wo = woCall.pre_wo
            /\ target = None => (woCall.raised = "NameError" /\ fs = woCall.pre_fs)
            /\ target # None =>
                /\ woCall.raised = "None"
                /\ fs[target] = saved
                /\ \A p \in FitsPaths \ {target} : fs[p] = woCall.pre_fs[p]

\* tofits with an output_path on an object that has another path of its own.
C8_Witness ==
    /\ woCall.op = "tofits"
    /\ woCall.path # None
    /\ woCall.pre_wo.path # None
    /\ woCall.pre_wo.path # woCall.path
    /\ fs[woCall.path] # woCall.pre_fs[woCall.path]
    /\ fs[woCall.pre_wo.path] = woCall.pre_fs[woCall.pre_wo.path]

-----------------------------------------------------------------------------
(* Claims on WavelengthCorrection.apply *)

\* C9: apply returns a corrected copy and does not modify its input: after
\* the call the input RSS has the intensity, variance and correction log it
\* had before, the 'applied' record is written on the returned copy only,
\* and the copy differs from the input only in its intensity rows (fibre i
\* resampled with offset_data[i]) and in that record.
C9_ApplyReturnsCopy ==
    wc.stage = "returned" =>
        /\ wc.heap[wc.rss.intensity] = wc.pre_heap[wc.rss.intensity]
        /\ wc.heap[wc.rss.variance] = wc.pre_heap[wc.rss.variance]
        /\ wc.heap[wc.rss.history] = wc.pre_heap[wc.rss.history]
        /\ wc.raised = "None" =>
            LET out == wc.result
                x == arange(wc.rss.wavelength_size)
            IN  /\ {out.intensity, out.variance, out.history}
                       \cap {wc.rss.intensity, wc.rss.variance, wc.rss.history} = {}
                /\ out.wavelength_size = wc.rss.wavelength_size
                /\ Len(wc.heap[out.intensity]) = Len(wc.pre_heap[wc.rss.intensity])
                /\ \A i \in 1..Len(wc.heap[out.intensity]) :
                       wc.heap[out.intensity][i] =
                           flux_conserving_interpolation(
                               x, shifted(x, wc.offset.offset_data[i]),
                               wc.pre_heap[wc.rss.intensity][i])
                /\ wc.heap[out.variance] = wc.pre_heap[wc.rss.variance]
                /\ wc.heap[out.history] =
                       Append(wc.pre_heap[wc.rss.history],
                              <<WavelengthCorrectionName, "applied">>)

\* A call that returned an RSS whose intensity is not that of the input.
C9_Witness ==
    /\ wc.stage = "returned"
    /\ wc.raised = "None"
    /\ Len(wc.pre_heap[wc.rss.intensity]) > 1
    /\ wc.heap[wc.result.intensity] # wc.heap[wc.rss.intensity]
    /\ wc.heap[wc.result.history] # wc.heap[wc.rss.history]

-----------------------------------------------------------------------------
(* Claims on SolarCrossCorrOffset.compute_shift_from_twilight *)

\* C10: after compute_shift_from_twilight returns, self.offset.offset_data
\* and self.offset.offset_error are paired arrays of the same shape with one
\* entry per fibre of the input container, and every entry of offset_error
\* is NaN.
C10_OffsetPairedErrorNaN ==
    tw.stage = "returned" =>
        /\ Len(tw.offset.offset_data.values) = tw.n_fibres
        /\ Len(tw.offset.offset_error.values) = tw.n_fibres
        /\ \A f \in 1..tw.n_fibres : IsNaN(tw.offset.offset_error.values[f])


Range(seq) == {seq[k] : k \in 1..Len(seq)}

\* C11: compute_shift_from_twilight stores as offset_data the negative of the
\* selected per-fibre shift, minus the likelihood-weighted mean shift with
\* use_mean and minus the best-fit grid shift without, and the dictionary
\* returned carries the pairs (shift, sigma) under "best-fit" and "mean"
\* whatever use_mean is.
C11_OffsetIsNegativeOfSelected ==
    tw.stage = "returned" =>
        /\ {"best-fit", "mean"} \subseteq DOMAIN tw.result
        /\ \A key \in {"best-fit", "mean"} :
               /\ Len(tw.result[key]) = 2
               /\ Len(tw.result[key][1].values) = tw.n_fibres
               /\ Len(tw.result[key][2].values) = tw.n_fibres
        /\ \A f \in 1..tw.n_fibres :
               /\ tw.result["best-fit"][1].values[f] \in Range(tw.pix_shift_array.values)
               /\ tw.result["best-fit"][2].values[f] \in Range(tw.pix_std_array.values)
               /\ tw.offset.offset_data.values[f] =
                      fneg(IF tw.use_mean THEN tw.result["mean"][1].values[f]
                           ELSE tw.result["best-fit"][1].values[f])

\* A call with use_mean has returned for a fibre whose mean shift is not its
\* best-fit shift, and a call without use_mean has a non-zero best fit.
C11_Witness ==
    /\ tw.stage = "returned"
    /\ tw.use_mean
    /\ \E f \in 1..tw.n_fibres :
           /\ ~IsNaN(tw.result["mean"][1].values[f])
           /\ tw.result["mean"][1].values[f] # tw.result["best-fit"][1].values[f]
           /\ tw.result["mean"][1].values[f] # R(0)

\* The first grid point, shifts first and widths second, at which the
\* chi-square of fibre f is lowest.
FirstMinimum(all_chi2, n_shift, n_std, f) ==
    CHOOSE g \in (1..n_shift) \X (1..n_std) :
        /\ \A h \in (1..n_shift) \X (1..n_std) :
               RLe(all_chi2[<<g[1], g[2], f>>], all_chi2[<<h[1], h[2], f>>])
        /\ \A h \in (1..n_shift) \X (1..n_std) :
               (h[1] < g[1] \/ (h[1] = g[1] /\ h[2] < g[2]))
                   => RLt(all_chi2[<<g[1], g[2], f>>], all_chi2[<<h[1], h[2], f>>])

HasData(all_chi2, n_shift, n_std, f) ==
    \A h \in (1..n_shift) \X (1..n_std) : ~IsNaN(all_chi2[<<h[1], h[2], f>>])

\* C12: for every fibre, the best-fit shift and sigma returned are the
\* elements of pix_shift_array and pix_std_array at the grid point where the
\* chi-square of that fibre is lowest over the whole grid, the first such
\* point in shift-major order on ties. Stated for the fibres whose
\* chi-square is a number everywhere.
C12_BestFitIsFirstMinimum ==
    tw.stage = "returned" =>
        LET n_shift == Len(tw.pix_shift_array.values)
            n_std == Len(tw.pix_std_array.values)
        IN  \A f \in 1..tw.n_fibres :
                HasData(tw.all_chi2, n_shift, n_std, f) =>
                    LET g == FirstMinimum(tw.all_chi2, n_shift, n_std, f)
                    IN  /\ tw.result["best-fit"][1].values[f] = tw.pix_shift_array.values[g[1]]
                        /\ tw.result["best-fit"][2].values[f] = tw.pix_std_array.values[g[2]]

\* C13: with wave_range None, only the pixels whose weight is in the top
\* keep_features_frac fraction of the weights keep a non-zero weight: a
\* weight below the percentile 100 * (1 - keep_features_frac) is set to 0.
C13_OnlyTopFractionKept ==
    sf.stage = "weights" =>
        LET top == nanpercentile(sf.weights,
                                 RMul(R(100), RSub(R(1), sf.keep_features_frac)))
        IN  \A k \in 1..Len(sf.weights) :
                flt(sf.weights[k], top) => sf.out[k] = R(0)

\* C14: with a wave_range, for every grid point (shift, sigma) the pixels
\* whose wavelength is outside [wave_range[0], wave_range[-1]] have zero
\* weight in the chi-square (a NaN weight is left out by np.nansum).
C14_ZeroWeightOutsideRange ==
    gm.stage = "grid" =>
        \A g \in DOMAIN gm.weights_grid : \A p \in 1..Len(gm.new_wavelength) :
            (flt(gm.new_wavelength[p], gm.wave_range[1])
             \/ flt(gm.wave_range[2], gm.new_wavelength[p]))
                => (IsNaN(gm.weights_grid[g][p]) \/ gm.weights_grid[g][p] = R(0))

\* C17: with pol_deg=None, gauss_smooth_sigma=None and mask_absorption=False
\* the response function returned by get_response_curve, evaluated at every
\* input wavelength wave[k], the first included, equals
\* obs_spectra[k] / ref_spectra[k].
C17_ResponseIsRatio ==
    rc.stage = "returned" =>
        \A k \in 1..Len(rc.wave) :
            rc.response[k] = RDiv(rc.obs_spectra[k], rc.ref_spectra[k])

-----------------------------------------------------------------------------
(* Claims on AtmosphericExtCorrection.apply *)

-----------------------------------------------------------------------------
(* Claims on the helpers of koala/ancillary.py *)

\* Every fibre has a number at the wavelength index k (counted from 0).
ValidAt(intensity, k) == \A i \in 1..Len(intensity) : ~IsNaN(intensity[i][k + 1])

\* C19: detect_edge returns the lowest and highest wavelength, with their
\* indices min_index <= max_index, that delimit the largest interval with
\* valid data in all spaxels: every wavelength index from min_index to
\* max_index has finite intensity in every fibre, and no index outside has.
C19_EdgesDelimitValidInterval ==
    (de.stage = "returned" /\ de.raised = "None") =>
        LET min_index == de.result[2]
            max_index == de.result[4]
        IN  /\ min_index <= max_index
            /\ de.result[1] = de.wavelength[min_index + 1]
            /\ de.result[3] = de.wavelength[max_index + 1]
            /\ \A k \in 0..(Len(de.wavelength) - 1) :
                   ValidAt(de.intensity, k) <=> (min_index <= k /\ k <= max_index)

\* C20: running_mean(x, n_window) of an array of length n returns an array of
\* length n - n_window whose k-th element is the mean of the n_window
\* elements x[k], ..., x[k + n_window - 1].
C20_RunningMeanLength ==
    (rm.stage = "returned" /\ rm.n_window <= Len(rm.x)) =>
        /\ Len(rm.result) = Len(rm.x) - rm.n_window
        /\ \A k \in 1..Len(rm.result) :
               rm.result[k] = RDiv(RSum(SubSeq(rm.x, k, k + rm.n_window - 1)),
                                   R(rm.n_window))

-----------------------------------------------------------------------------
(* Claims on FluxCalibration.auto *)

\* C15: FluxCalibration.auto called without a save argument saves the
\* response of every star to a file.
C15_SavedByDefault ==
    (au.stage = "returned" /\ au.raised = "None" /\ au.save = None) =>
        \A name \in DOMAIN au.results : \E file \in au.files : file[2] = name

\* The names the entries are stored under.
AutoNames(a) == IF a.fnames = None THEN a.calib_stars ELSE a.fnames

\* The template of a star of the library.
Template(star) == read_calibration_star(star, None, LibFiles, <<None, None>>).calib

\* The entry is the one made of the i-th container and the i-th star.
BuiltFrom(entry, a, i) ==
    /\ {"extraction", "interp", "response"} \subseteq DOMAIN entry
    /\ entry.extraction.mean_wave = <<"mean_wave", a.data[i].id>>
    /\ entry.extraction.optimal = <<"optimal", a.data[i].id>>
    /\ entry.interp.new_wavelength = entry.extraction.mean_wave
    /\ entry.interp.wavelength = Template(a.calib_stars[i])[1]
    /\ entry.interp.spectra = Template(a.calib_stars[i])[2]
    /\ Len(entry.response) = Len(a.data[i].wavelength)
    /\ \A k \in 1..Len(entry.response) :
           /\ entry.response[k].observed = entry.extraction.optimal
           /\ entry.response[k].reference = entry.interp.spectra
           /\ entry.response[k].at = a.data[i].wavelength[k]

=============================================================================
